---- MODULE Spec2Model ----
(***************************************************************************)
(* go-digitemp: a 1-Wire bus master over a UART (bus.go, bus-driver.go),   *)
(* ROM addressing and Search-ROM discovery (onewire-device.go, rom.go,     *)
(* crc8) and the DS18x20 temperature sensor protocol                       *)
(* (onewire-temperature-sensor.go).                                        *)
(*                                                                         *)
(* Bytes are integers 0..255, a ROM is a sequence of 8 bytes, a bit        *)
(* sequence is a sequence of 0/1.  The devices on the line are not code of *)
(* the repository; they are modelled as the comments of the source         *)
(* describe them (wired-AND line, ROM commands, function commands).        *)
(***************************************************************************)
EXTENDS Integers, Sequences, FiniteSets, TLC

VARIABLES
    devs,       \* devices on the line: ROM -> [sp, par, alarm]
    sensor,     \* the TemperatureSensor object, NoSensor before construction
    ret,        \* what the last public operation returned, NoRet when idle
    wire,       \* the transport primitives the last operation issued, in order
    nops,       \* public operations and line changes so far
    spc,        \* searchROM: position of the search loop
    withAlarm,  \* searchROM: the WithAlarm argument
    complete,   \* searchROM: var complete
    partials,   \* searchROM: var partials
    current,    \* searchROM: var current
    sret,       \* searchROM: what the search returned
    stat,       \* searchROM: rounds and bit pairs read so far
    pc,         \* concurrent callers: position of each caller in its operation
    job,        \* concurrent callers: the operation each caller runs
    mx,         \* UARTAdapter.mx: 0 when free, else the caller holding it
    line,       \* concurrent callers: the last primitive on the transport
    uart,       \* the serial port: what one primitive wrote to it and read from it
    uret        \* what the last primitive or ROM function returned, with its inputs

vars == <<devs, sensor, ret, wire, nops, spc, withAlarm, complete, partials,
          current, sret, stat, pc, job, mx, line, uart, uret>>

sensorVars == <<sensor, ret, wire, nops>>
searchVars == <<spc, withAlarm, complete, partials, current, sret, stat>>
concVars == <<pc, job, mx, line>>
uartVars == <<uart, uret>>

(***************************************************************************)
(* Bounds of the model.                                                    *)
(***************************************************************************)
MaxDevices == 2     \* devices on the line at once
MaxFailAt == 4      \* a transport fault hits one of the first MaxFailAt primitives
MaxOps == 2         \* public operations per behaviour of Spec
MaxBusy == 1        \* read slots a busy device answers with 0
MaxCallers == 2     \* concurrent callers sharing the bus
MaxShort == 7       \* bytes a short uart.Read of 8 returns
MaxByte == 255      \* the largest byte of a raw temperature count
MaxExtra == 1       \* characters a ROM text may have beyond 16
MaxFound == 3       \* devices on the line of a search

(***************************************************************************)
(* Byte arithmetic.                                                        *)
(***************************************************************************)
Pow2(n) == <<1, 2, 4, 8, 16, 32, 64, 128, 256>>[n + 1]

Bit(b, n) == (b \div Pow2(n)) % 2

Xor(a, b) ==
    LET x(n) == ((Bit(a, n) + Bit(b, n)) % 2) * Pow2(n)
    IN x(0) + x(1) + x(2) + x(3) + x(4) + x(5) + x(6) + x(7)

And(a, b) ==
    LET x(n) == (Bit(a, n) * Bit(b, n)) * Pow2(n)
    IN x(0) + x(1) + x(2) + x(3) + x(4) + x(5) + x(6) + x(7)

Or(a, b) == a + b - And(a, b)

Shr(a, n) == IF n >= 8 THEN 0 ELSE a \div Pow2(n)

Shl(a, n) == IF n >= 8 THEN 0 ELSE (a * Pow2(n)) % 256

(***************************************************************************)
(* crc8: Dallas/Maxim CRC, polynomial 0x8C, LSB first, seeded with 0.      *)
(***************************************************************************)
\* the inner loop: mix := (crc ^ b) & 0x01; crc >>= 1; if mix > 0
\* { crc ^= 0x8c }; b >>= 1.  mix is the low bit of crc ^ b: it is set when
\* the low bits of crc and b differ
RECURSIVE crc8Bits(_, _, _)
crc8Bits(crc, b, i) ==
    IF i = 8 THEN crc
    ELSE IF Bit(crc, 0) # Bit(b, 0)
    THEN crc8Bits(Xor(Shr(crc, 1), 140), Shr(b, 1), i + 1)
    ELSE crc8Bits(Shr(crc, 1), Shr(b, 1), i + 1)

\* the outer loop: the crc after the first k bytes of data
RECURSIVE crc8Upto(_, _)
crc8Upto(data, k) ==
    IF k = 0 THEN 0 ELSE crc8Bits(crc8Upto(data, k - 1), data[k], 0)

crc8(data) == crc8Upto(data, Len(data))

(***************************************************************************)
(* ROM.                                                                    *)
(***************************************************************************)
NoROM == <<>>

NoSensor == [state |-> "none"]

IsValid(r) == crc8(SubSeq(r, 1, 7)) = r[8]

\* toBits with the bits of a byte taken from the top (sensitivity of C21)
toBitsMsbFirst(r) == [k \in 1..64 |-> Bit(r[((k - 1) \div 8) + 1], 7 - ((k - 1) % 8))]

toBits(r) == [k \in 1..64 |-> Bit(r[((k - 1) \div 8) + 1], (k - 1) % 8)]

newRomFromBits(bits) ==
    LET set(n) == Len(bits) >= n + 1 /\ n < 64 /\ bits[n + 1] > 0
        byte(i) == LET x(m) == IF set(8 * i + m) THEN Pow2(m) ELSE 0
                   IN x(0) + x(1) + x(2) + x(3) + x(4) + x(5) + x(6) + x(7)
    IN [i \in 1..8 |-> byte(i - 1)]

(***************************************************************************)
(* The devices on the line.  A session b is the line during one public     *)
(* operation: the devices (b.devs), which of them still take part          *)
(* (b.sel), what they expect next (b.ph, b.pos, b.sub), how many read      *)
(* slots a busy device still answers with 0 (b.busy), how many elapsed-    *)
(* time checks still say "not yet" (b.clock), the primitives issued        *)
(* (b.n, b.log) and the primitive a transport fault hits (b.failAt, 0 for  *)
(* none).  A fault is a lost echo: the slot took place on the line and     *)
(* the read back failed.                                                   *)
(*                                                                         *)
(* The session also carries the error of the call sequence so far          *)
(* (b.err): every call of the source is followed by "if err != nil         *)
(* { return err }", so a call on a session with b.err set is skipped.      *)
(* b.v is the value the last read returned, b.buf the buffer ReadBytes     *)
(* fills, b.lost whether some primitive has failed in this operation.      *)
(***************************************************************************)
NewSession(d, failAt, busy, clock) ==
    [devs |-> d, sel |-> {}, ph |-> "idle", pos |-> 0, sub |-> 0,
     busy |-> busy, clock |-> clock, n |-> 0, failAt |-> failAt, log |-> <<>>,
     err |-> FALSE, v |-> 0, buf |-> <<>>, lost |-> FALSE]

Faulty(b) == b.failAt # 0 /\ b.n + 1 = b.failAt

\* the primitive ev = <<kind, value>> has been issued on session b and left
\* the devices as in d; the log keeps it with whether it succeeded
Issued(b, d, ev, val) ==
    [d EXCEPT !.n = b.n + 1, !.log = Append(b.log, Append(ev, ~Faulty(b))),
              !.v = val, !.err = Faulty(b), !.lost = b.lost \/ Faulty(b)]

\* a reset pulse no device answers
NoPresence(b) ==
    [b EXCEPT !.n = b.n + 1, !.log = Append(b.log, <<"reset", 0, FALSE>>),
              !.err = TRUE, !.lost = TRUE]

RECURSIVE AndAll(_)
AndAll(S) ==
    IF S = {} THEN 255
    ELSE LET x == CHOOSE y \in S : TRUE IN And(x, AndAll(S \ {x}))

LineBit(S) == IF 0 \in S THEN 0 ELSE 1

RomBit(r, pos) == Bit(r[(pos \div 8) + 1], pos % 8)

\* the devices of S, listed (the set S as an enumerated set)
Those(S) == {r : r \in S}

IsProgrammable(r) == r[1] \in {34, 40}

\* a device with the scratchpad sp: the 9th byte it sends is the crc
DevWith(d, sp) == [d EXCEPT !.sp = sp, !.crc = crc8(sp)]

\* a device stores a written scratchpad byte: TH, TL, and the two
\* resolution bits of the configuration byte on the 0x22/0x28 families
DevStore(d, r, pos, data) ==
    CASE pos = 0 -> DevWith(d, [d.sp EXCEPT ![3] = data])
      [] pos = 1 -> DevWith(d, [d.sp EXCEPT ![4] = data])
      [] pos = 2 /\ IsProgrammable(r) ->
           DevWith(d, [d.sp EXCEPT ![5] = Or(And(data, 96), 31)])
      [] OTHER -> d

\* the selected devices S store the byte
RECURSIVE DevStoreAll(_, _, _, _)
DevStoreAll(d, S, pos, data) ==
    IF S = {} THEN d
    ELSE LET r == CHOOSE x \in S : TRUE
         IN DevStoreAll([d EXCEPT ![r] = DevStore(d[r], r, pos, data)],
                        S \ {r}, pos, data)

\* byte pos of the scratchpad a device sends
SpByte(d, pos) == IF pos < 8 THEN d.sp[pos + 1] ELSE d.crc

DevRomCommand(b, data) ==
    CASE data = 51 -> [b EXCEPT !.ph = "readrom", !.pos = 0]
      [] data = 85 -> [b EXCEPT !.ph = "match", !.pos = 0]
      [] data = 204 -> [b EXCEPT !.ph = "func"]
      [] data = 240 -> [b EXCEPT !.ph = "search", !.pos = 0, !.sub = 0]
      [] data = 236 -> [b EXCEPT !.ph = "search", !.pos = 0, !.sub = 0,
                                 !.sel = Those({r \in b.sel : b.devs[r].alarm})]
      [] OTHER -> [b EXCEPT !.ph = "dead", !.sel = {}]

DevFunctionCommand(b, data) ==
    CASE data = 190 -> [b EXCEPT !.ph = "sendsp", !.pos = 0]
      [] data \in {68, 72, 184} -> [b EXCEPT !.ph = "busy"]
      [] data = 180 -> [b EXCEPT !.ph = "power"]
      [] data = 78 -> [b EXCEPT !.ph = "recvsp", !.pos = 0]
      [] OTHER -> [b EXCEPT !.ph = "dead", !.sel = {}]

DevWriteByte(b, data) ==
    CASE b.ph = "rom" -> DevRomCommand(b, data)
      [] b.ph = "match" ->
           [b EXCEPT !.sel = Those({r \in b.sel : r[b.pos + 1] = data}),
                     !.pos = b.pos + 1,
                     !.ph = IF b.pos + 1 = 8 THEN "func" ELSE "match"]
      [] b.ph = "func" -> DevFunctionCommand(b, data)
      [] b.ph = "recvsp" ->
           [b EXCEPT !.devs = DevStoreAll(b.devs, b.sel, b.pos, data),
                     !.pos = b.pos + 1]
      [] OTHER -> [b EXCEPT !.ph = "dead", !.sel = {}]

\* the byte the line shows in 8 read slots
DevByte(b) ==
    CASE b.ph = "readrom" /\ b.pos < 8 -> AndAll({r[b.pos + 1] : r \in b.sel})
      [] b.ph = "sendsp" /\ b.pos < 9 ->
           AndAll({SpByte(b.devs[r], b.pos) : r \in b.sel})
      [] OTHER -> 255

DevAfterByte(b) ==
    IF b.ph \in {"readrom", "sendsp"} THEN [b EXCEPT !.pos = b.pos + 1] ELSE b

\* a written bit selects, during a search, the devices that have it
DevWriteBit(b, v) ==
    IF b.ph = "search" /\ b.sub = 2
    THEN [b EXCEPT !.sel = Those({r \in b.sel : RomBit(r, b.pos) = v}),
                   !.pos = b.pos + 1, !.sub = 0,
                   !.ph = IF b.pos + 1 = 64 THEN "func" ELSE "search"]
    ELSE [b EXCEPT !.ph = "dead", !.sel = {}]

\* the bit the line shows in one read slot
DevBit(b) ==
    CASE b.ph = "search" /\ b.sub = 0 -> LineBit({RomBit(r, b.pos) : r \in b.sel})
      [] b.ph = "search" /\ b.sub = 1 ->
           LineBit({1 - RomBit(r, b.pos) : r \in b.sel})
      [] b.ph = "power" -> IF \E r \in b.sel : b.devs[r].par THEN 0 ELSE 1
      [] b.ph = "busy" -> IF b.sel # {} /\ b.busy > 0 THEN 0 ELSE 1
      [] OTHER -> 1

\* a read slot is a written 1 to a device that expects a direction bit
DevAfterBit(b) ==
    CASE b.ph = "search" /\ b.sub < 2 -> [b EXCEPT !.sub = b.sub + 1]
      [] b.ph = "search" /\ b.sub = 2 -> DevWriteBit(b, 1)
      [] b.ph = "busy" /\ b.sel # {} /\ b.busy > 0 -> [b EXCEPT !.busy = b.busy - 1]
      [] OTHER -> b

(***************************************************************************)
(* The bus primitives (bus.go).  Each returns the session afterwards:      *)
(* .err says whether the call returned an error, .v is the value read.     *)
(***************************************************************************)
Reset(b) ==
    IF b.err THEN b
    ELSE IF DOMAIN b.devs = {} THEN NoPresence(b)
    ELSE Issued(b, [b EXCEPT !.ph = "rom", !.sel = DOMAIN b.devs,
                             !.pos = 0, !.sub = 0], <<"reset", 0>>, 0)

ReadBit(b) ==
    IF b.err THEN b
    ELSE IF Faulty(b) THEN Issued(b, DevAfterBit(b), <<"rbit", 0>>, 0)
    ELSE Issued(b, DevAfterBit(b), <<"rbit", DevBit(b)>>, DevBit(b))

ReadByte(b) ==
    IF b.err THEN b
    ELSE IF Faulty(b) THEN Issued(b, DevAfterByte(b), <<"rbyte", 0>>, 0)
    ELSE Issued(b, DevAfterByte(b), <<"rbyte", DevByte(b)>>, DevByte(b))

WriteBit(b, data) ==
    IF b.err THEN b
    ELSE Issued(b, DevWriteBit(b, data % 2), <<"wbit", data % 2>>, 0)

WriteByte(b, data) ==
    IF b.err THEN b
    ELSE Issued(b, DevWriteByte(b, data), <<"wbyte", data>>, 0)

\* buffer[i], err = a.ReadByte()
intoBuffer(r) == IF r.err THEN r ELSE [r EXCEPT !.buf = Append(@, r.v)]

RECURSIVE ReadBytesFrom(_, _)
ReadBytesFrom(b, size) ==
    IF b.err \/ Len(b.buf) = size THEN b
    ELSE ReadBytesFrom(intoBuffer(ReadByte(b)), size)

ReadBytes(b, size) ==
    IF b.err THEN b ELSE ReadBytesFrom([b EXCEPT !.buf = <<>>], size)

RECURSIVE WriteBytesFrom(_, _, _)
WriteBytesFrom(b, buffer, i) ==
    IF b.err \/ i > Len(buffer) THEN b
    ELSE WriteBytesFrom(WriteByte(b, buffer[i]), buffer, i + 1)

WriteBytes(b, buffer) == WriteBytesFrom(b, buffer, 1)

(***************************************************************************)
(* ROM addressing (onewire-device.go).  .v of readROM is the ROM, NoROM    *)
(* with an error (return nil, err).                                        *)
(***************************************************************************)
\* readROM as it would be without the IsValid check (sensitivity of C10)
romUnchecked(r) ==
    IF r.err THEN [r EXCEPT !.v = NoROM] ELSE [r EXCEPT !.v = r.buf]

\* if !rom.IsValid() { return nil, errors.New("crc error") }; return rom, nil
romChecked(r) ==
    IF r.err THEN [r EXCEPT !.v = NoROM]
    ELSE IF ~IsValid(r.buf) THEN [r EXCEPT !.err = TRUE, !.v = NoROM]
    ELSE [r EXCEPT !.v = r.buf]

\* READ ROM [33h]
readROM(b) == romChecked(ReadBytes(WriteByte(Reset(b), 51), 8))

\* MATCH ROM [55h]
matchROM(b, rom) == WriteBytes(WriteByte(Reset(b), 85), rom)

\* SKIP ROM [CCh]
skipROM(b) == WriteByte(Reset(b), 204)

\* b1, _ := d.bus.ReadBit(): the error is dropped, the value of a failed
\* read is 0
dropErr(r) == [r EXCEPT !.err = FALSE]

\* The for loops over 64 bits are run by halving the index range: the
\* body is applied to lo, lo+1, .., hi in order and the loop stops at the
\* first body that returns or fails (st.exit).

\* isConnected, the body of the loop over rom.toBits(), from the write on
isConnectedWrite(b1, r2, bit) ==
    IF b1 = r2.v /\ b1 = 1
    THEN [b |-> r2, exit |-> TRUE, online |-> FALSE]
    ELSE LET r3 == WriteBit(r2, bit)
         IN [b |-> r3, exit |-> r3.err, online |-> ~r3.err]

isConnectedSecond(r1, bit) == isConnectedWrite(r1.v, dropErr(ReadBit(r1)), bit)

isConnectedBit(st, bit) == isConnectedSecond(dropErr(ReadBit(st.b)), bit)

RECURSIVE isConnectedLoop(_, _, _, _)
isConnectedLoop(st, bits, lo, hi) ==
    IF st.exit THEN st
    ELSE IF lo = hi THEN isConnectedBit(st, bits[lo])
    ELSE isConnectedLoop(isConnectedLoop(st, bits, lo, (lo + hi) \div 2),
                         bits, ((lo + hi) \div 2) + 1, hi)

\* .v is the bool isConnected returns
isConnectedResult(st) == [st.b EXCEPT !.v = st.online]

isConnected(b, rom) ==
    LET r2 == WriteByte(Reset(b), 240)
    IN IF r2.err THEN [r2 EXCEPT !.v = FALSE]
       ELSE isConnectedResult(
              isConnectedLoop([b |-> r2, exit |-> FALSE, online |-> TRUE],
                              toBits(rom), 1, 64))

(***************************************************************************)
(* SEARCH ROM [F0h] / ALARM SEARCH [ECh]: one turn of the outer loop of    *)
(* searchROM.  A turn works on st = [b, exit, current, partials].          *)
(***************************************************************************)
\* "send known bits", the body of the loop
knownBit(b, bit) == WriteBit(ReadBit(ReadBit(b)), bit)

RECURSIVE knownLoop(_, _, _, _)
knownLoop(b, cur, lo, hi) ==
    IF b.err THEN b
    ELSE IF lo = hi THEN knownBit(b, cur[lo])
    ELSE knownLoop(knownLoop(b, cur, lo, (lo + hi) \div 2),
                   cur, ((lo + hi) \div 2) + 1, hi)

sendKnownBits(b, cur) ==
    IF b.err \/ Len(cur) = 0 THEN b ELSE knownLoop(b, cur, 1, Len(cur))

\* searchROM as it would be without saving the branch (sensitivity of C2)
savePartialDropped(parts, cur) == parts

\* the branch saved twice (sensitivity of C25)
savePartialTwice(parts, cur) == Append(Append(parts, Append(cur, 1)), Append(cur, 1))

\* the branch saved in front of the pending ones (sensitivity of C26)
savePartialFront(parts, cur) == <<Append(cur, 1)>> \o parts

\* the branch taken saved instead of the other one (sensitivity of C33)
savePartialTaken(parts, cur) == Append(parts, Append(cur, 0))

\* "save version with 1 as possible rom"
savePartial(parts, cur) == Append(parts, Append(cur, 1))

\* "read rest of the bits", the body of the loop once both bits are read;
\* st.exit is the break of the alarm search or a return with an error
restDecide(st, WithAlarm, b1, r2) ==
    IF r2.err THEN [st EXCEPT !.b = r2, !.exit = TRUE]
    ELSE IF b1 # r2.v
    THEN LET r3 == WriteBit(r2, b1)
         IN [st EXCEPT !.b = r3, !.exit = r3.err, !.current = Append(@, b1)]
    ELSE IF b1 = 0
    THEN LET r3 == WriteBit(r2, 0)
         IN [st EXCEPT !.b = r3, !.exit = r3.err,
                       !.partials = savePartial(@, st.current),
                       !.current = Append(@, 0)]
    ELSE IF WithAlarm
         THEN [st EXCEPT !.b = r2, !.exit = TRUE]
         ELSE [st EXCEPT !.b = [r2 EXCEPT !.err = TRUE], !.exit = TRUE]

restSecond(st, WithAlarm, r1) == restDecide(st, WithAlarm, r1.v, ReadBit(r1))

restBit(st, WithAlarm) == restSecond(st, WithAlarm, ReadBit(st.b))

RECURSIVE restLoop(_, _, _, _)
restLoop(st, WithAlarm, lo, hi) ==
    IF st.exit THEN st
    ELSE IF lo = hi THEN restBit(st, WithAlarm)
    ELSE restLoop(restLoop(st, WithAlarm, lo, (lo + hi) \div 2),
                  WithAlarm, ((lo + hi) \div 2) + 1, hi)

\* for len(current) < 64: every turn that does not leave the loop appends
\* one bit, so the body runs for the lengths Len(cur), .., 63
readRestBits(b, WithAlarm, cur, parts) ==
    IF b.err \/ ~(Len(cur) < 64)
    THEN [b |-> b, exit |-> b.err, current |-> cur, partials |-> parts]
    ELSE restLoop([b |-> b, exit |-> FALSE, current |-> cur, partials |-> parts],
                  WithAlarm, Len(cur) + 1, 64)

searchCommand(WithAlarm) == IF WithAlarm THEN 236 ELSE 240

searchRound(b, WithAlarm, cur, parts) ==
    readRestBits(
        sendKnownBits(WriteByte(Reset(b), searchCommand(WithAlarm)), cur),
        WithAlarm, cur, parts)

(***************************************************************************)
(* The temperature sensor (onewire-temperature-sensor.go).  s is the       *)
(* TemperatureSensor object, b the session on the line.                    *)
(***************************************************************************)
\* Go's integer division truncates toward zero
Quot(a, d) == IF a >= 0 THEN a \div d ELSE -((-a) \div d)

\* the conversion time as it would be if it did not follow the resolution
\* (sensitivity of C13)
tConvFixed(resolution) == 750

\* time.Millisecond * (750 / (8 >> resolution)), in milliseconds
tConvOf(resolution) == 750 \div Shr(8, resolution)

\* fmt.Sprintf("%d bits", 9+resolution)
precisionOf(resolution) == <<"9 bits", "10 bits", "11 bits", "12 bits">>[resolution + 1]

descriptionOf(familyCode) ==
    CASE familyCode = 0 -> "Unidentified device"
      [] familyCode = 16 -> "DS18S20 - High-precision Digital Thermometer"
      [] familyCode = 34 -> "DS1822 - Econo Digital Thermometer"
      [] familyCode = 40 -> "DS18B20 - Programmable Resolution Digital Thermometer"
      [] OTHER -> ""

\* the selection as it would be if it did not look at the mode (sensitivity
\* of C17)
resetSkip(s, b) == skipROM(b)

\* Send reset pulse, wait for presence and then select the device.
reset(s, b) == IF s.singleMode THEN skipROM(b) ELSE matchROM(b, s.rom)

\* wait: outside parasitic mode, read bits until one is not 0 or the
\* duration has passed (b.clock checks of the elapsed time say "not yet");
\* the timeout is a break, not an error
RECURSIVE waitLoop(_)
\* the timeout as an error instead of a break (sensitivity of C28)
waitCheckStrict(r) ==
    IF r.err \/ r.v # 0 THEN r
    ELSE IF r.clock = 0 THEN [r EXCEPT !.err = TRUE]
    ELSE waitLoop([r EXCEPT !.clock = r.clock - 1])

waitCheck(r) ==
    IF r.err \/ r.v # 0 \/ r.clock = 0 THEN r
    ELSE waitLoop([r EXCEPT !.clock = r.clock - 1])

waitLoop(b) == waitCheck(ReadBit(b))

\* wait polling in parasitic mode too (sensitivity of C27)
waitPolling(s, b) == IF b.err THEN b ELSE waitLoop(b)

wait(s, b) == IF b.err \/ s.parasiticMode THEN b ELSE waitLoop(b)

\* CONVERT T [44h]
convertT(s, b) == wait(s, WriteByte(reset(s, b), 68))

\* READ POWER SUPPLY [B4h]; .v is the bit read, parasitic mode is .v = 0
inParasiticMode(s, b) == ReadBit(WriteByte(reset(s, b), 180))

\* readScratchpad as it would be without the crc check (sensitivity of C9)
spUnchecked(r) ==
    IF r.err THEN [r EXCEPT !.v = <<>>] ELSE [r EXCEPT !.v = SubSeq(r.buf, 1, 8)]

\* crc := data[8]; if crc8(scratchpad) != crc { return nil, error }
spChecked(r) ==
    IF r.err THEN [r EXCEPT !.v = <<>>]
    ELSE IF crc8(SubSeq(r.buf, 1, 8)) # r.buf[9]
    THEN [r EXCEPT !.err = TRUE, !.v = <<>>]
    ELSE [r EXCEPT !.v = SubSeq(r.buf, 1, 8)]

\* READ SCRATCHPAD [BEh]; .v is the scratchpad
readScratchpad(s, b) == spChecked(ReadBytes(WriteByte(reset(s, b), 190), 9))

\* WRITE SCRATCHPAD [4Eh]
writeScratchpad(s, b, data) == WriteBytes(WriteByte(reset(s, b), 78), data)

\* COPY SCRATCHPAD [48h]
copyScratchpad(s, b) == wait(s, WriteByte(reset(s, b), 72))

\* the recall as it would be if it did not look at the power mode
\* (sensitivity of C18)
recallAlways(s, b) == wait(s, WriteByte(reset(s, b), 184))

\* RECALL EE [B8h]
recallScratchpad(s, b) ==
    IF s.parasiticMode THEN b ELSE wait(s, WriteByte(reset(s, b), 184))

\* the count as it would be read without its sign (sensitivity of C12)
int16Unsigned(lo, hi) == lo + 256 * hi

\* binary.Read of a little-endian int16
int16(lo, hi) ==
    IF lo + 256 * hi >= 32768 THEN lo + 256 * hi - 65536 ELSE lo + 256 * hi

\* int8(byte) and byte(int8)
int8(x) == IF x >= 128 THEN x - 256 ELSE x

toByte(x) == x % 256

\* calcTemperature divides by scratchpad[7] on the extended DS18S20
calcDividesByZero(s, sp) == s.familyCode = 16 /\ s.resolution > 0 /\ sp[8] = 0

\* temperature * 10000
calcTemperature(s, sp) ==
    CASE s.familyCode = 16 /\ s.resolution > 0 ->
           int16(sp[1], sp[2]) * 5000 - 2500
               + Quot(10000 * (sp[8] - sp[7]), sp[8])
      [] s.familyCode = 16 -> int16(sp[1], sp[2]) * 5000
      [] s.familyCode \in {34, 40} -> Quot(int16(sp[1], sp[2]) * 10000, 16)
      [] OTHER -> 0

(***************************************************************************)
(* The public operations.  Each returns [s, b, out, val, online]: the       *)
(* sensor afterwards, the session, how the call ended ("ok", "err" for a   *)
(* returned error, "panic" for a run-time panic, "go" while it is still    *)
(* running), the numbers returned (val) and the bool IsConnected returns.  *)
(***************************************************************************)
Ended(s, b, out, val) ==
    [s |-> s, b |-> b, out |-> out, val |-> val, online |-> FALSE]

\* s := &TemperatureSensor{...}
NewSensorObject(rom) ==
    [rom |-> rom, familyCode |-> 0, singleMode |-> FALSE,
     parasiticMode |-> FALSE, resolution |-> 0, description |-> "",
     precision |-> "", tConv |-> 750, tRW |-> 10]

\* if rom, err := s.readROM(); err != nil { if required { return } }
\* else { s.rom = rom }
newAfterReadROM(s, required, r) ==
    IF r.err
    THEN IF required THEN Ended(s, r, "err", <<>>)
         ELSE Ended(s, dropErr(r), "go", <<>>)
    ELSE Ended([s EXCEPT !.rom = r.v], r, "go", <<>>)

\* if online, err := s.isConnected(s.rom); err != nil { return }
\* else if required && !online { return }
newAfterIsConnected(s, required, r) ==
    IF r.err \/ (required /\ ~r.v) THEN Ended(s, r, "err", <<>>)
    ELSE Ended(s, r, "go", <<>>)

newSelect(s, required, b) ==
    IF s.rom = NoROM
    THEN newAfterReadROM([s EXCEPT !.singleMode = TRUE], required, readROM(b))
    ELSE newAfterIsConnected([s EXCEPT !.singleMode = FALSE], required,
                             isConnected(b, s.rom))

\* s.parasiticMode = pm; s.familyCode = s.rom.Code[0] (s.rom is a pointer:
\* reading through nil panics); the description
newAfterPower(s, r) ==
    IF r.err THEN Ended(s, r, "err", <<>>)
    ELSE IF s.rom = NoROM
    THEN Ended([s EXCEPT !.parasiticMode = (r.v = 0)], r, "panic", <<>>)
    ELSE Ended([s EXCEPT !.parasiticMode = (r.v = 0),
                         !.familyCode = s.rom[1],
                         !.description = descriptionOf(s.rom[1])],
               r, "go", <<>>)

newPower(st) ==
    IF st.out # "go" THEN st
    ELSE newAfterPower(st.s, inParasiticMode(st.s, st.b))

\* s.resolution = (sp[4] >> 5) & 0b11; s.tConv; s.precision
newAfterScratchpad(s, r) ==
    IF r.err THEN Ended(s, r, "err", <<>>)
    ELSE Ended([s EXCEPT !.resolution = And(Shr(r.v[5], 5), 3),
                         !.tConv = tConvOf(And(Shr(r.v[5], 5), 3)),
                         !.precision = precisionOf(And(Shr(r.v[5], 5), 3))],
               r, "ok", <<>>)

\* switch s.familyCode
newResolution(st) ==
    IF st.out # "go" THEN st
    ELSE CASE st.s.familyCode = 16 ->
                Ended([st.s EXCEPT !.precision =
                         IF st.s.resolution = 0 THEN "9 bits" ELSE "extended"],
                      st.b, "ok", <<>>)
           [] st.s.familyCode \in {34, 40} ->
                newAfterScratchpad(st.s, readScratchpad(st.s, st.b))
           [] OTHER -> Ended([st.s EXCEPT !.precision = "unknown"], st.b, "ok", <<>>)

NewTemperatureSensor(b, rom, required) ==
    newResolution(newPower(newSelect(NewSensorObject(rom), required, b)))

\* return s.calcTemperature(sp) / 100, nil
getAfterScratchpad(s, r) ==
    IF r.err THEN Ended(s, r, "err", <<0>>)
    ELSE IF calcDividesByZero(s, r.v) THEN Ended(s, r, "panic", <<>>)
    ELSE Ended(s, r, "ok", <<Quot(calcTemperature(s, r.v), 100)>>)

GetTemperature(s, b) == getAfterScratchpad(s, readScratchpad(s, convertT(s, b)))

\* return int8(sp[2]), int8(sp[3]), nil
alarmsAfterScratchpad(s, r) ==
    IF r.err THEN Ended(s, r, "err", <<0, 0>>)
    ELSE Ended(s, r, "ok", <<int8(r.v[3]), int8(r.v[4])>>)

GetAlarms(s, b) == alarmsAfterScratchpad(s, readScratchpad(s, b))

\* the data as it would be without the configuration byte (sensitivity of
\* C15)
alarmDataShort(s, high, low, sp) == <<toByte(high), toByte(low)>>

\* data: byte(high), byte(low), and scratchpad[4] on the 0x22/0x28 families
alarmData(s, high, low, sp) ==
    IF s.familyCode \in {34, 40}
    THEN <<toByte(high), toByte(low), sp[5]>>
    ELSE <<toByte(high), toByte(low)>>

errOrOk(s, r) == Ended(s, r, IF r.err THEN "err" ELSE "ok", <<>>)

setAlarmsWrite(s, high, low, r) ==
    IF r.err THEN Ended(s, r, "err", <<>>)
    ELSE errOrOk(s, writeScratchpad(s, r, alarmData(s, high, low, r.v)))

SetAlarms(s, b, high, low) == setAlarmsWrite(s, high, low, readScratchpad(s, b))

\* s.tConv and s.precision once the scratchpad is written
setResolutionDone(s, r) ==
    IF r.err THEN Ended(s, r, "err", <<>>)
    ELSE Ended([s EXCEPT !.tConv = tConvOf(s.resolution),
                         !.precision = precisionOf(s.resolution)], r, "ok", <<>>)

\* the data as it would be with the alarm bytes of the factory scratchpad
\* (sensitivity of C14)
resolutionDataFactory(sp, resolution) ==
    <<75, 70, Or(Shl(And(resolution, 3), 5), 31)>>

\* data: scratchpad[2], scratchpad[3], (s.resolution<<5)|0b00011111
resolutionData(sp, resolution) ==
    <<sp[3], sp[4], Or(Shl(And(resolution, 3), 5), 31)>>

\* s.resolution = resolution & 0b11, then the write
setResolutionWrite(s, resolution, r) ==
    IF r.err THEN Ended(s, r, "err", <<>>)
    ELSE setResolutionDone(
           [s EXCEPT !.resolution = And(resolution, 3)],
           writeScratchpad([s EXCEPT !.resolution = And(resolution, 3)], r,
                           resolutionData(r.v, resolution)))

SetResolution(s, b, resolution) ==
    CASE s.familyCode = 16 ->
           IF resolution = 0
           THEN Ended([s EXCEPT !.resolution = 0, !.precision = "9 bits"],
                      b, "ok", <<>>)
           ELSE Ended([s EXCEPT !.resolution = 1, !.precision = "extended"],
                      b, "ok", <<>>)
      [] s.familyCode \in {34, 40} ->
           setResolutionWrite(s, resolution, readScratchpad(s, b))
      [] OTHER -> Ended(s, b, "ok", <<>>)

SaveEEPROM(s, b) == errOrOk(s, copyScratchpad(s, b))

LoadEEPROM(s, b) == errOrOk(s, recallScratchpad(s, b))

\* AddressableDevice: .val is the ROM or the bool
romAnswer(r) == Ended(NoSensor, r, IF r.err THEN "err" ELSE "ok", r.v)

GetSingleROM(b) == romAnswer(readROM(b))

boolAnswer(r) ==
    [Ended(NoSensor, r, IF r.err THEN "err" ELSE "ok", <<>>)
       EXCEPT !.online = r.v]

IsConnected(b, rom) == boolAnswer(isConnected(b, rom))

(***************************************************************************)
(* The devices the model puts on the line.                                 *)
(***************************************************************************)
RomS20 == <<16, 1, 0, 0, 0, 0, 0, 204>>         \* DS18S20, CRC-valid
Rom822 == <<34, 1, 0, 0, 0, 0, 0, 162>>         \* DS1822, CRC-valid
RomB20 == <<40, 1, 0, 0, 0, 0, 0, 41>>          \* DS18B20, CRC-valid
RomB20b == <<40, 2, 0, 0, 0, 0, 0, 112>>        \* DS18B20, CRC-valid
RomTwin == <<40, 1, 0, 0, 0, 0, 0, 169>>        \* RomB20 with bit 63 flipped
RomReadme == <<40, 37, 234, 82, 5, 16, 243, 206>>   \* ROM of the tests, CRC-invalid

SearchCatalog == {RomS20, Rom822, RomB20, RomB20b, RomTwin, RomReadme}

FactorySp(r) ==
    CASE r[1] = 16 -> <<170, 0, 75, 70, 255, 255, 12, 16>>
      [] r[1] = 34 -> <<145, 1, 75, 70, 31, 255, 12, 16>>
      [] OTHER -> <<208, 7, 75, 70, 127, 255, 12, 16>>

Device(r, par, alarm) ==
    [sp |-> FactorySp(r), crc |-> crc8(FactorySp(r)), par |-> par,
     alarm |-> alarm]

NoRet == [op |-> "none"]
NoSearch == [err |-> FALSE, roms |-> <<>>]
NoLine == [by |-> 0, ev |-> <<>>]
NoStat == [rounds |-> 0, pairs |-> 0, breaks |-> 0, ones |-> 0, n |-> 0,
           failAt |-> 0, stable |-> TRUE]

SensorIdle == sensor = NoSensor /\ ret = NoRet /\ wire = <<>> /\ nops = 0
SearchIdle ==
    /\ spc = "idle" /\ withAlarm = FALSE /\ complete = <<>> /\ partials = <<>>
    /\ current = <<>> /\ sret = NoSearch /\ stat = NoStat
ConcIdle == pc = <<>> /\ job = <<>> /\ mx = 0 /\ line = NoLine
NoUart == [tx |-> <<>>, rx |-> <<>>]
NoUret == [op |-> "none"]
UartIdle == uart = NoUart /\ uret = NoUret

(***************************************************************************)
(* Spec: one caller at a time.  Every public operation is one action: it   *)
(* runs the whole handler on the line as it is and leaves what it returned *)
(* in ret and the primitives it issued in wire; Return hands the result to *)
(* the caller.  Between operations devices may leave or join the line.     *)
(***************************************************************************)
SensorCatalog == {RomS20, Rom822, RomB20, RomTwin}

Resolutions == {0, 1, 2, 3, 7}

AlarmPairs == {<<30, -10>>, <<-5, -55>>}

Init ==
    /\ \E S \in SUBSET SensorCatalog :
         /\ Cardinality(S) <= MaxDevices
         /\ \E P \in SUBSET S : devs = [r \in S |-> Device(r, r \in P, FALSE)]
    /\ SensorIdle /\ SearchIdle /\ ConcIdle /\ UartIdle

Idle == ret.op = "none"

\* the line a public operation runs on
Line(failAt, busy, clock) == NewSession(devs, failAt, busy, clock)

\* what the operation op, called with rom and required or with the numbers
\* args, returned
Returned(op, rom, required, args, st) ==
    /\ ret' = [op |-> op, out |-> st.out, val |-> st.val,
               online |-> st.online, rom |-> rom, required |-> required,
               args |-> args, was |-> sensor]
    /\ wire' = st.b.log
    /\ devs' = st.b.devs

Construct ==
    /\ Idle /\ sensor = NoSensor
    /\ \E rom \in {NoROM} \cup SensorCatalog, required \in BOOLEAN,
          failAt \in 0..MaxFailAt :
         \E st \in {NewTemperatureSensor(Line(failAt, 0, 0), rom, required)} :
            /\ Returned("New", rom, required, <<>>, st)
            /\ sensor' = IF st.out = "ok" THEN st.s ELSE NoSensor
    /\ UNCHANGED <<nops, searchVars, concVars, uartVars>>

\* an operation of the sensor: the object keeps what the handler assigned
SensorOp(op, args, st) ==
    /\ Returned(op, sensor.rom, FALSE, args, st)
    /\ sensor' = st.s
    /\ nops' = nops + 1
    /\ UNCHANGED <<searchVars, concVars, uartVars>>

CanCall == Idle /\ sensor # NoSensor /\ nops < MaxOps

DoGetTemperature ==
    /\ CanCall
    /\ \E failAt \in 0..MaxFailAt, busy \in 0..MaxBusy, clock \in 0..MaxBusy :
         \E st \in {GetTemperature(sensor, Line(failAt, busy, clock))} :
            SensorOp("GetTemperature", <<>>, st)

DoGetAlarms ==
    /\ CanCall
    /\ \E failAt \in 0..MaxFailAt :
         \E st \in {GetAlarms(sensor, Line(failAt, 0, 0))} :
            SensorOp("GetAlarms", <<>>, st)

DoSetAlarms ==
    /\ CanCall
    /\ \E failAt \in 0..MaxFailAt, hl \in AlarmPairs :
         \E st \in {SetAlarms(sensor, Line(failAt, 0, 0), hl[1], hl[2])} :
            SensorOp("SetAlarms", hl, st)

\* the primitives a fault of SetResolution can hit: the first MaxFailAt of
\* the scratchpad read and the first MaxFailAt after it
ResolutionFaults ==
    LET n == Len(readScratchpad(sensor, Line(0, 0, 0)).log)
    IN  (0..MaxFailAt) \cup {n + k : k \in 1..MaxFailAt}

DoSetResolution ==
    /\ CanCall
    /\ \E failAt \in ResolutionFaults, resolution \in Resolutions :
         \E st \in {SetResolution(sensor, Line(failAt, 0, 0), resolution)} :
            SensorOp("SetResolution", <<resolution>>, st)

DoSaveEEPROM ==
    /\ CanCall
    /\ \E failAt \in 0..MaxFailAt, busy \in 0..MaxBusy, clock \in 0..MaxBusy :
         \E st \in {SaveEEPROM(sensor, Line(failAt, busy, clock))} :
            SensorOp("SaveEEPROM", <<>>, st)

DoLoadEEPROM ==
    /\ CanCall
    /\ \E failAt \in 0..MaxFailAt, busy \in 0..MaxBusy, clock \in 0..MaxBusy :
         \E st \in {LoadEEPROM(sensor, Line(failAt, busy, clock))} :
            SensorOp("LoadEEPROM", <<>>, st)

\* an operation of the AddressableDevice
DeviceOp(op, rom, st) ==
    /\ Returned(op, rom, FALSE, <<>>, st)
    /\ nops' = nops + 1
    /\ UNCHANGED <<sensor, searchVars, concVars, uartVars>>

DoGetSingleROM ==
    /\ Idle /\ nops < MaxOps
    /\ \E failAt \in 0..MaxFailAt :
         \E st \in {GetSingleROM(Line(failAt, 0, 0))} :
            DeviceOp("GetSingleROM", NoROM, st)

DoIsConnected ==
    /\ Idle /\ nops < MaxOps
    /\ \E failAt \in 0..MaxFailAt, rom \in SensorCatalog :
         \E st \in {IsConnected(Line(failAt, 0, 0), rom)} :
            DeviceOp("IsConnected", rom, st)

Return ==
    /\ ~Idle
    /\ ret' = NoRet /\ wire' = <<>>
    /\ UNCHANGED <<devs, sensor, nops, searchVars, concVars, uartVars>>

\* a device leaves the line
Detach ==
    /\ Idle /\ nops < MaxOps
    /\ \E r \in DOMAIN devs : devs' = [x \in DOMAIN devs \ {r} |-> devs[x]]
    /\ nops' = nops + 1
    /\ UNCHANGED <<sensor, ret, wire, searchVars, concVars, uartVars>>

\* a device joins the line
Attach ==
    /\ Idle /\ nops < MaxOps /\ Cardinality(DOMAIN devs) < MaxDevices
    /\ \E r \in SensorCatalog \ DOMAIN devs :
         devs' = [x \in DOMAIN devs \cup {r} |->
                    IF x = r THEN Device(r, FALSE, FALSE) ELSE devs[x]]
    /\ nops' = nops + 1
    /\ UNCHANGED <<sensor, ret, wire, searchVars, concVars, uartVars>>

Next ==
    \/ Construct \/ DoGetTemperature \/ DoGetAlarms \/ DoSetAlarms
    \/ DoSetResolution \/ DoSaveEEPROM \/ DoLoadEEPROM
    \/ DoGetSingleROM \/ DoIsConnected \/ Return \/ Detach \/ Attach

Spec == Init /\ [][Next]_vars

(***************************************************************************)
(* SpecSearch: GetConnectedROMs / GetROMsWithAlarm, one action per turn    *)
(* of the outer loop of searchROM.                                         *)
(***************************************************************************)
RbitCount(log) == Cardinality({i \in 1..Len(log) : log[i][1] = "rbit"})

\* the pairs of read bits (a bit, then its complement) that both read 1
BothOnes(log) ==
    Cardinality({i \in 1..(Len(log) - 1) :
                   /\ log[i] = <<"rbit", 1, TRUE>>
                   /\ log[i + 1] = <<"rbit", 1, TRUE>>
                   /\ log[i - 1][1] # "rbit"})

InitSearch ==
    /\ \E S \in SUBSET SearchCatalog :
         /\ Cardinality(S) <= MaxFound
         /\ \E A \in SUBSET S : devs = [r \in S |-> Device(r, FALSE, r \in A)]
    /\ SensorIdle /\ SearchIdle /\ ConcIdle /\ UartIdle

\* the public entry: the command and the three locals of searchROM
SearchStart ==
    /\ spc = "idle"
    /\ \E wa \in BOOLEAN, f \in 0..MaxFailAt :
         /\ withAlarm' = wa
         /\ stat' = [NoStat EXCEPT !.failAt = f]
    /\ spc' = "loop"
    /\ complete' = <<>> /\ partials' = <<>> /\ current' = <<>>
    /\ sret' = NoSearch
    /\ UNCHANGED <<devs, sensorVars, concVars, uartVars>>

\* the end of a turn st of the for loop: return nil, err; or the append to
\* complete, and then the break or the pop of partials
SearchTurnEnd(st, done) ==
    /\ stat' = [stat EXCEPT !.rounds = @ + 1, !.n = st.b.n,
                            !.pairs = @ + (RbitCount(st.b.log) \div 2),
                            !.ones = @ + BothOnes(st.b.log),
                            !.breaks = @ + (IF ~st.b.err /\ Len(st.current) < 64
                                            THEN 1 ELSE 0)]
    /\ IF st.b.err
       THEN /\ spc' = "done"
            /\ sret' = [err |-> TRUE, roms |-> <<>>]
            /\ UNCHANGED <<complete, partials, current>>
       ELSE /\ complete' = done
            /\ IF Len(st.partials) = 0
               THEN /\ spc' = "done"
                    /\ sret' = [err |-> FALSE, roms |-> done]
                    /\ current' = st.current
                    /\ partials' = st.partials
               ELSE /\ spc' = "loop"
                    /\ current' = st.partials[1]
                    /\ partials' = Tail(st.partials)
                    /\ UNCHANGED sret

SearchTurnAppend(st) ==
    SearchTurnEnd(st, Append(complete, newRomFromBits(st.current)))

\* one turn of the for loop: reset, command, known bits, rest of the bits
SearchTurn ==
    /\ spc = "loop"
    /\ \E st \in {searchRound([NewSession(devs, stat.failAt, 0, 0)
                                   EXCEPT !.n = stat.n],
                              withAlarm, current, partials)} :
         SearchTurnAppend(st)
    /\ UNCHANGED <<devs, withAlarm, sensorVars, concVars, uartVars>>

\* devices leave the line between two turns of the search
Unplug ==
    /\ spc = "loop" /\ stat.stable /\ stat.rounds > 0
    /\ \E R \in SUBSET DOMAIN devs :
         /\ R # {}
         /\ devs' = [x \in DOMAIN devs \ R |-> devs[x]]
    /\ stat' = [stat EXCEPT !.stable = FALSE]
    /\ UNCHANGED <<spc, withAlarm, complete, partials, current, sret,
                   sensorVars, concVars, uartVars>>

NextSearch == SearchStart \/ SearchTurn \/ Unplug

SpecSearch == InitSearch /\ [][NextSearch]_vars

(***************************************************************************)
(* SpecConc: MaxCallers goroutines share the bus and one sensor.  A caller *)
(* takes the mutex where the operation it runs takes it, issues the        *)
(* primitives of the operation one at a time, and releases the mutex on    *)
(* return.  The primitives of an operation are those its handler issues on *)
(* the line; SpecConc follows who is on the transport, not the data.       *)
(***************************************************************************)
Callers == 1..MaxCallers

ConcOps == {"New", "GetTemperature", "GetAlarms", "SetAlarms", "SetResolution",
            "SaveEEPROM", "LoadEEPROM", "GetSingleROM", "GetConnectedROMs",
            "GetROMsWithAlarm", "IsConnected"}

\* the operations that begin with s.bus.Lock(); defer s.bus.Unlock()
OpLocks(op) == op # "SetResolution"

NoJob == [op |-> "none", script |-> <<>>, at |-> 0]

\* the primitives the operation op issues on the line b, on the sensor s
\* and the device rom
Script(op, s, b, rom) ==
    CASE op = "New" -> NewTemperatureSensor(b, s.rom, FALSE).b.log
      [] op = "GetTemperature" -> GetTemperature(s, b).b.log
      [] op = "GetAlarms" -> GetAlarms(s, b).b.log
      [] op = "SetAlarms" -> SetAlarms(s, b, 30, -10).b.log
      [] op = "SetResolution" -> SetResolution(s, b, 1).b.log
      [] op = "SaveEEPROM" -> SaveEEPROM(s, b).b.log
      [] op = "LoadEEPROM" -> LoadEEPROM(s, b).b.log
      [] op = "GetSingleROM" -> GetSingleROM(b).b.log
      [] op = "GetConnectedROMs" -> searchRound(b, FALSE, <<>>, <<>>).b.log
      [] op = "GetROMsWithAlarm" -> searchRound(b, TRUE, <<>>, <<>>).b.log
      [] OTHER -> IsConnected(b, rom).b.log

\* the lines of SpecConc: one device, and a sensor constructed for it by
\* its ROM or, without a ROM, in single mode
ConcCatalog == {RomS20, RomB20}

ConcDevs(r) == [x \in {r} |-> Device(r, FALSE, FALSE)]

ConcLine(r) == NewSession(ConcDevs(r), 0, 0, 0)

ConcSensor(r, single) ==
    NewTemperatureSensor(ConcLine(r), IF single THEN NoROM ELSE r, TRUE).s

Scripts ==
    [r \in ConcCatalog |-> [single \in BOOLEAN |-> [op \in ConcOps |->
        Script(op, ConcSensor(r, single), ConcLine(r), r)]]]

\* the device the callers address
TheRom == CHOOSE r \in DOMAIN devs : TRUE

ScriptOf(op) == Scripts[TheRom][sensor.singleMode][op]

InitConc ==
    /\ \E r \in ConcCatalog, single \in BOOLEAN :
         /\ devs = ConcDevs(r)
         /\ sensor = ConcSensor(r, single)
    /\ ret = NoRet /\ wire = <<>> /\ nops = 0
    /\ SearchIdle
    /\ pc = [c \in Callers |-> "idle"]
    /\ job = [c \in Callers |-> NoJob]
    /\ mx = 0 /\ line = NoLine
    /\ UartIdle

\* a caller enters one of the public operations ops
ConcStartOp(c, ops) ==
    /\ pc[c] = "idle"
    /\ \E op \in ops :
         \E script \in {ScriptOf(op)} :
            /\ job' = [job EXCEPT ![c] = [op |-> op, script |-> script, at |-> 1]]
            /\ pc' = [pc EXCEPT ![c] = IF OpLocks(op) THEN "lock" ELSE "run"]
    /\ UNCHANGED <<devs, mx, line, sensorVars, searchVars, uartVars>>

\* a.mx.Lock()
ConcLock(c) ==
    /\ pc[c] = "lock" /\ mx = 0
    /\ mx' = c
    /\ pc' = [pc EXCEPT ![c] = "run"]
    /\ UNCHANGED <<devs, job, line, sensorVars, searchVars, uartVars>>

\* the caller issues the next primitive of its operation
ConcStep(c) ==
    /\ pc[c] = "run" /\ job[c].at <= Len(job[c].script)
    /\ line' = [by |-> c, ev |-> job[c].script[job[c].at]]
    /\ job' = [job EXCEPT ![c].at = @ + 1]
    /\ UNCHANGED <<devs, pc, mx, sensorVars, searchVars, uartVars>>

\* a return without the unlock (sensitivity of C31)
unlockSkipped(op, m) == m

\* defer s.bus.Unlock(): the mutex after the return of the operation op
unlock(op, m) == IF OpLocks(op) THEN 0 ELSE m

\* the operation returns; the deferred a.mx.Unlock() runs where it was set
ConcEnd(c) ==
    /\ pc[c] = "run" /\ job[c].at > Len(job[c].script)
    /\ mx' = unlock(job[c].op, mx)
    /\ pc' = [pc EXCEPT ![c] = "idle"]
    /\ job' = [job EXCEPT ![c] = NoJob]
    /\ UNCHANGED <<devs, line, sensorVars, searchVars, uartVars>>

\* the transport refuses the next primitive of the operation (nothing goes
\* on the line) and the operation returns the error; the deferred
\* a.mx.Unlock() runs
ConcFail(c) ==
    /\ pc[c] = "run" /\ job[c].at <= Len(job[c].script)
    /\ mx' = unlock(job[c].op, mx)
    /\ pc' = [pc EXCEPT ![c] = "idle"]
    /\ job' = [job EXCEPT ![c] = NoJob]
    /\ UNCHANGED <<devs, line, sensorVars, searchVars, uartVars>>

\* a caller enters a public operation
ConcStart(c) == ConcStartOp(c, ConcOps)

NextConc ==
    \E c \in Callers :
        ConcStart(c) \/ ConcLock(c) \/ ConcStep(c) \/ ConcEnd(c)

SpecConc == InitConc /\ [][NextConc]_vars

\* SpecConcFair: the callers of the operations that take the lock.  The
\* transport calls terminate, so a caller that can issue its next primitive
\* or return does so; sync.Mutex hands the lock to a waiter that has waited
\* long (starvation mode), so a caller that finds the mutex free again and
\* again gets it.  The callers share a DS18B20
InitConcFair == InitConc /\ TheRom = RomB20

LockingOps == {op \in ConcOps : OpLocks(op)}

ConcStartLocking(c) == ConcStartOp(c, LockingOps)

NextConcFair ==
    \E c \in Callers :
        \/ ConcStartLocking(c)
        \/ ConcLock(c)
        \/ ConcStep(c)
        \/ ConcEnd(c)
        \/ ConcFail(c)

SpecConcFair ==
    /\ InitConcFair /\ [][NextConcFair]_vars
    /\ \A c \in Callers :
         /\ WF_vars(ConcStep(c) \/ ConcEnd(c))
         /\ SF_vars(ConcLock(c))

(***************************************************************************)
(* SpecUart: the bit and byte primitives on the serial port (bus.go).  A   *)
(* primitive writes bytes to the port and reads the echo back.  wok says   *)
(* whether uart.Write returned no error; r = [err, n, bytes] is what       *)
(* uart.Read returned: an error or not, the count, the bytes received.     *)
(* Each primitive returns [err, tx, rx]: whether it returned an error, the *)
(* uart.Write calls it made and the buffer it read into.                   *)
(***************************************************************************)
\* var buffer [size]byte after uart.Read(buffer[0:size]) returned n
received(r, size) == [i \in 1..size |-> IF i <= r.n THEN r.bytes[i] ELSE 0]

\* WriteBit: if data%2 == 0 { data = 0x00 } else { data = 0xff }
slotOf(data) == IF data % 2 = 0 THEN 0 ELSE 255

\* WriteByte: bits[n] = 0xff if (data>>n)%2 != 0
slotsOf(data) == [i \in 1..8 |-> IF Shr(data, i - 1) % 2 # 0 THEN 255 ELSE 0]

\* the comparison as it would be if the echo were not looked at
\* (sensitivity of C11)
echoIgnored(bits, buffer) == TRUE

\* for n, bit := range bits { if buffer[n] != bit { return error } }
echoMatches(bits, buffer) == \A i \in 1..Len(bits) : buffer[i] = bits[i]

\* UARTAdapter.WriteBit
writeBit(data, wok, r) ==
    IF ~wok THEN [err |-> TRUE, tx |-> <<<<slotOf(data)>>>>, rx |-> <<>>]
    ELSE IF r.err \/ r.n # 1
    THEN [err |-> TRUE, tx |-> <<<<slotOf(data)>>>>, rx |-> received(r, 1)]
    ELSE [err |-> slotOf(data) # received(r, 1)[1],
          tx |-> <<<<slotOf(data)>>>>, rx |-> received(r, 1)]

\* UARTAdapter.WriteByte
writeByte(data, wok, r) ==
    IF ~wok THEN [err |-> TRUE, tx |-> <<slotsOf(data)>>, rx |-> <<>>]
    ELSE IF r.err \/ r.n # 8
    THEN [err |-> TRUE, tx |-> <<slotsOf(data)>>, rx |-> received(r, 8)]
    ELSE [err |-> ~echoMatches(slotsOf(data), received(r, 8)),
          tx |-> <<slotsOf(data)>>, rx |-> received(r, 8)]

\* the bytes a caller passes and the bytes the line may echo
UartData == {0, 1, 2, 85, 128, 254, 255}

EchoBytes == {0, 1, 127, 240, 254, 255}

\* the echo of the slots sent, with the byte at position k replaced by e
\* (k = 0: the echo is what was sent)
EchoOf(sent, k, e) == [i \in 1..Len(sent) |-> IF i = k THEN e ELSE sent[i]]

\* the port is open, nothing has been called yet
InitUart ==
    /\ devs = ConcDevs(RomB20)
    /\ SensorIdle /\ SearchIdle /\ ConcIdle /\ UartIdle

UartCanCall == uret.op = "none"

UartReturned(op, data, wok, r, st) ==
    /\ uret' = [op |-> op, data |-> data, wok |-> wok, r |-> r, err |-> st.err]
    /\ uart' = [tx |-> st.tx, rx |-> st.rx]
    /\ UNCHANGED <<devs, sensorVars, searchVars, concVars>>

DoWriteBit ==
    /\ UartCanCall
    /\ \E data \in UartData, wok \in BOOLEAN, rerr \in BOOLEAN, n \in 0..1,
       e \in EchoBytes :
        \E r \in {[err |-> rerr, n |-> n, bytes |-> <<e>>]} :
            UartReturned("WriteBit", data, wok, r, writeBit(data, wok, r))

DoWriteByte ==
    /\ UartCanCall
    /\ \E data \in UartData, wok \in BOOLEAN, rerr \in BOOLEAN, n \in {0, MaxShort, 8},
       k \in 0..8, e \in EchoBytes :
        \E r \in {[err |-> rerr, n |-> n,
                   bytes |-> EchoOf(slotsOf(data), k, e)]} :
            UartReturned("WriteByte", data, wok, r, writeByte(data, wok, r))

\* the caller takes the result; the next call starts on flushed buffers
UartReturn ==
    /\ ~UartCanCall
    /\ uret' = NoUret /\ uart' = NoUart
    /\ UNCHANGED <<devs, sensorVars, searchVars, concVars>>

NextUart == DoWriteBit \/ DoWriteByte \/ UartReturn

SpecUart == InitUart /\ [][NextUart]_vars

(***************************************************************************)
(* SpecCalc: calcTemperature on every raw count.  The sensor is an object  *)
(* of one of the three families; the scratchpad is the factory scratchpad  *)
(* with bytes 0 and 1 replaced.                                            *)
(***************************************************************************)
CalcFamilies == {16, 34, 40}

\* a scratchpad whose temperature register holds lo, hi
CalcScratchpad(lo, hi) ==
    [FactorySp(RomS20) EXCEPT ![1] = lo, ![2] = hi]

InitCalc ==
    /\ devs = ConcDevs(RomB20)
    /\ \E f \in CalcFamilies :
         sensor = [NewSensorObject(NoROM) EXCEPT !.familyCode = f]
    /\ \E lo \in 0..MaxByte, hi \in 0..MaxByte :
         uret = [op |-> "scratchpad", sp |-> CalcScratchpad(lo, hi)]
    /\ ret = NoRet /\ wire = <<>> /\ nops = 0
    /\ SearchIdle /\ ConcIdle /\ uart = NoUart

\* temp := s.calcTemperature(scratchpad)
DoCalcTemperature ==
    /\ uret.op = "scratchpad"
    /\ uret' = [op |-> "calcTemperature", sp |-> uret.sp,
                val |-> calcTemperature(sensor, uret.sp)]
    /\ UNCHANGED <<devs, uart, sensorVars, searchVars, concVars>>

NextCalc == DoCalcTemperature

SpecCalc == InitCalc /\ [][NextCalc]_vars

(***************************************************************************)
(* SpecScratch: GetTemperature from the nine bytes of READ SCRATCHPAD on.  *)
(* The sensor is an object of one of the three families at resolution 0 or *)
(* 1 (BS18S20ResolutionExtended on family 0x10); the bytes are what        *)
(* s.bus.ReadBytes(data) delivered, whatever drove the line.               *)
(***************************************************************************)
\* values of the temperature register, of COUNT REMAIN and COUNT PER C
ScratchLow == {0, 170, 255}
ScratchHigh == {0, 255}
ScratchCounts == {0, 1, 12, 16, 255}

\* the bytes 2..5: TH, TL and the two that follow
ScratchMiddles == {<<0, 0, 0, 0>>, <<75, 70, 255, 255>>}

ScratchRead(lo, hi, mid, remain, perC, crcOk) ==
    <<lo, hi>> \o mid \o <<remain, perC>>
        \o <<IF crcOk THEN crc8(<<lo, hi>> \o mid \o <<remain, perC>>)
              ELSE (crc8(<<lo, hi>> \o mid \o <<remain, perC>>) + 1) % 256>>

InitScratch ==
    /\ devs = ConcDevs(RomS20)
    /\ \E f \in CalcFamilies, res \in {0, 1} :
         sensor = [NewSensorObject(NoROM) EXCEPT !.familyCode = f,
                                                 !.resolution = res]
    /\ \E lo \in ScratchLow, hi \in ScratchHigh, mid \in ScratchMiddles,
          remain \in ScratchCounts, perC \in ScratchCounts, crcOk \in BOOLEAN :
         uret = [op |-> "read", out |-> "go", val |-> <<>>,
                 buf |-> ScratchRead(lo, hi, mid, remain, perC, crcOk)]
    /\ ret = NoRet /\ wire = <<>> /\ nops = 0
    /\ SearchIdle /\ ConcIdle /\ uart = NoUart

\* GetTemperature from the return of s.bus.ReadBytes(data) on: the crc
\* check of readScratchpad, then calcTemperature(sp) / 100
DoGetAfterRead ==
    /\ uret.op = "read"
    /\ \E st \in {getAfterScratchpad(sensor,
                     spChecked([Line(0, 0, 0) EXCEPT !.buf = uret.buf]))} :
         uret' = [op |-> "GetTemperature", out |-> st.out, val |-> st.val,
                  buf |-> uret.buf]
    /\ UNCHANGED <<devs, uart, sensorVars, searchVars, concVars>>

NextScratch == DoGetAfterRead

SpecScratch == InitScratch /\ [][NextScratch]_vars

(***************************************************************************)
(* SpecRom: ROM values and their text (rom.go).  A text is a sequence of   *)
(* one-character strings.                                                  *)
(***************************************************************************)
HexUpper == <<"0", "1", "2", "3", "4", "5", "6", "7", "8", "9",
              "A", "B", "C", "D", "E", "F">>

HexLower == <<"0", "1", "2", "3", "4", "5", "6", "7", "8", "9",
              "a", "b", "c", "d", "e", "f">>

\* the value of a base-16 digit, -1 for any other character
hexValue(c) ==
    IF \E i \in 1..16 : HexUpper[i] = c
    THEN (CHOOSE i \in 1..16 : HexUpper[i] = c) - 1
    ELSE IF \E i \in 1..16 : HexLower[i] = c
    THEN (CHOOSE i \in 1..16 : HexLower[i] = c) - 1
    ELSE -1

\* strconv.ParseInt(s, 16, 16) on the two characters c1 c2: an optional
\* sign, then base-16 digits, at least one
parseInt(c1, c2) ==
    IF c1 \in {"+", "-"}
    THEN IF hexValue(c2) < 0 THEN [err |-> TRUE, v |-> 0]
         ELSE [err |-> FALSE,
               v |-> IF c1 = "-" THEN -hexValue(c2) ELSE hexValue(c2)]
    ELSE IF hexValue(c1) < 0 \/ hexValue(c2) < 0 THEN [err |-> TRUE, v |-> 0]
    ELSE [err |-> FALSE, v |-> 16 * hexValue(c1) + hexValue(c2)]

\* NewROMFromString: [err, rom], rom = NoROM for return nil, err
NewROMFromString(code) ==
    IF Len(code) # 16 THEN [err |-> TRUE, rom |-> NoROM]
    ELSE IF \E i \in 1..8 : parseInt(code[2 * i - 1], code[2 * i]).err
    THEN [err |-> TRUE, rom |-> NoROM]
    ELSE [err |-> FALSE,
          rom |-> [i \in 1..8 |->
                     toByte(parseInt(code[2 * i - 1], code[2 * i]).v)]]

\* the byte in lower-case hex, "%02x" (sensitivity of C22)
hexByteLower(b) == <<HexLower[(b \div 16) + 1], HexLower[(b % 16) + 1]>>

\* fmt.Sprintf("%02X", b)
hexByte(b) == <<HexUpper[(b \div 16) + 1], HexUpper[(b % 16) + 1]>>

\* ROM.String: 8 empty strings and the 8 bytes in hex, joined
String(r) ==
    hexByte(r[1]) \o hexByte(r[2]) \o hexByte(r[3]) \o hexByte(r[4])
        \o hexByte(r[5]) \o hexByte(r[6]) \o hexByte(r[7]) \o hexByte(r[8])

\* the characters the texts of the model are made of
TextChars == {"0", "9", "A", "F", "a", "f", "+", "-", "G", "g", " ", "x"}

\* the text of a ROM with the character at position k replaced by c (k = 0:
\* no character replaced), cut or extended to n characters
TextOf(r, k, c, n) ==
    SubSeq([i \in 1..(16 + MaxExtra) |->
              IF i = k THEN c
              ELSE IF i <= 16 THEN String(r)[i] ELSE "0"], 1, n)

InitRom ==
    /\ devs = ConcDevs(RomB20)
    /\ \E r \in SearchCatalog, k \in 0..16, c \in TextChars,
          n \in 0..(16 + MaxExtra) :
         uret = [op |-> "text", code |-> TextOf(r, k, c, n)]
    /\ SensorIdle /\ SearchIdle /\ ConcIdle /\ uart = NoUart

DoNewROMFromString ==
    /\ uret.op = "text"
    /\ \E st \in {NewROMFromString(uret.code)} :
         uret' = [op |-> "NewROMFromString", code |-> uret.code,
                  err |-> st.err, rom |-> st.rom]
    /\ UNCHANGED <<devs, uart, sensorVars, searchVars, concVars>>

NextRom == DoNewROMFromString

SpecRom == InitRom /\ [][NextRom]_vars

(***************************************************************************)
(* SpecRomValue: the conversions of a ROM value (rom.go): to its 64 bits   *)
(* and back, to its text and back.                                         *)
(***************************************************************************)
RomZero == <<0, 0, 0, 0, 0, 0, 0, 0>>

RomOnes == <<255, 255, 255, 255, 255, 255, 255, 255>>

\* the ROM values of the model: every value of every byte, in three settings
RomValueOf(r, p, v) == [r EXCEPT ![p] = toByte(v)]

InitRomValue ==
    /\ devs = ConcDevs(RomB20)
    /\ \E r \in {RomZero, RomOnes, RomReadme}, p \in 1..8, v \in 0..MaxByte :
         uret = [op |-> "rom", rom |-> RomValueOf(r, p, v)]
    /\ SensorIdle /\ SearchIdle /\ ConcIdle /\ uart = NoUart

\* newRomFromBits(rom.toBits())
DoToBits ==
    /\ uret.op = "rom"
    /\ \E bits \in {toBits(uret.rom)} :
         uret' = [op |-> "toBits", rom |-> uret.rom, bits |-> bits,
                  back |-> newRomFromBits(bits)]
    /\ UNCHANGED <<devs, uart, sensorVars, searchVars, concVars>>

\* NewROMFromString(rom.String())
DoString ==
    /\ uret.op = "rom"
    /\ \E text \in {String(uret.rom)} :
         \E st \in {NewROMFromString(text)} :
            uret' = [op |-> "String", rom |-> uret.rom, text |-> text,
                     err |-> st.err, back |-> st.rom]
    /\ UNCHANGED <<devs, uart, sensorVars, searchVars, concVars>>

NextRomValue == DoToBits \/ DoString

SpecRomValue == InitRomValue /\ [][NextRomValue]_vars

(***************************************************************************)
(* SpecReset: the reset pulse on the serial port (bus-driver.go, reset;     *)
(* bus.go, Reset).  The port is the baud rate of the serial line           *)
(* (uart.baud), the adapter's mode record (uart.mode) and whether the      *)
(* port the adapter holds is open (uart.open); a call of the serial        *)
(* library that fails leaves the port as it was.                           *)
(***************************************************************************)
NormalBaud == 115200

ResetBaud == 9600

\* the calls of reset that can fail ("short": 0 bytes written or read)
ResetCalls ==
    {"setMode", "clear", "write", "shortWrite", "read", "shortRead", "restore"}

\* pulse ignoring the low nibble of the echo (sensitivity of C29)
pulseUnaligned(f, e) ==
    IF f \cap {"write", "shortWrite", "read", "shortRead"} # {} THEN "io"
    ELSE IF Shr(e, 4) = 15 THEN "absent"
    ELSE ""

\* the closure pulse of reset: "" for nil, else the error; f the calls that
\* fail, e the byte read back
pulse(f, e) ==
    IF "write" \in f THEN "io"
    ELSE IF "shortWrite" \in f THEN "io"
    ELSE IF "read" \in f THEN "io"
    ELSE IF "shortRead" \in f THEN "io"
    ELSE IF And(e, 15) # 0 THEN "pulse"
    ELSE IF Shr(e, 4) = 15 THEN "absent"
    ELSE ""

\* UARTAdapter.reset: [err, uart]
uartReset(u, f, e) ==
    LET low == [u EXCEPT !.mode = ResetBaud]
        slow == [low EXCEPT !.baud = ResetBaud]
        high == [slow EXCEPT !.mode = NormalBaud]
    IN  IF "setMode" \in f THEN [err |-> "mode", uart |-> low]
        ELSE IF "clear" \in f THEN [err |-> "clear", uart |-> slow]
        ELSE IF "restore" \in f THEN [err |-> "mode", uart |-> high]
        ELSE [err |-> pulse(f, e), uart |-> [high EXCEPT !.baud = NormalBaud]]

\* the calls of Reset (bus.go) that can fail
PortCalls == {"close", "open", "write", "read", "shortRead", "reopen"}

\* UARTAdapter.Reset of bus.go: [err, uart].  The port opened at 9600 is a
\* local of Reset; a.uart is the closed port until the last OpenPort, and
\* closing a closed port is an error
portReset(u, f, e) ==
    LET closed == [u EXCEPT !.open = FALSE]
        slow == [closed EXCEPT !.baud = ResetBaud]
    IN  IF "close" \in f \/ ~u.open THEN [err |-> "io", uart |-> u]
        ELSE IF "open" \in f THEN [err |-> "io", uart |-> closed]
        ELSE IF "write" \in f THEN [err |-> "io", uart |-> slow]
        ELSE IF "read" \in f THEN [err |-> "io", uart |-> slow]
        ELSE IF "shortRead" \in f THEN [err |-> "io", uart |-> slow]
        ELSE IF e = 255 THEN [err |-> "absent", uart |-> slow]
        ELSE IF e < 16 \/ e > 224 THEN [err |-> "pulse", uart |-> slow]
        ELSE IF "reopen" \in f THEN [err |-> "io", uart |-> slow]
        ELSE [err |-> "", uart |-> [baud |-> NormalBaud, mode |-> u.mode,
                                    open |-> TRUE]]

\* NewUartAdapter: the port is open at 115200
InitReset ==
    /\ devs = ConcDevs(RomB20)
    /\ uart = [baud |-> NormalBaud, mode |-> NormalBaud, open |-> TRUE]
    /\ uret = NoUret
    /\ SensorIdle /\ SearchIdle /\ ConcIdle

DoReset ==
    /\ uret.op = "none"
    /\ uart.open
    /\ \E f \in SUBSET ResetCalls, v \in 0..MaxByte :
         \E st \in {uartReset(uart, f, toByte(v))} :
            /\ uart' = st.uart
            /\ uret' = [op |-> "reset", fault |-> f, echo |-> toByte(v),
                        err |-> st.err, baud |-> uart.baud, open |-> uart.open]
    /\ UNCHANGED <<devs, sensorVars, searchVars, concVars>>

DoPortReset ==
    /\ uret.op = "none"
    /\ \E f \in SUBSET PortCalls, v \in 0..MaxByte :
         \E st \in {portReset(uart, f, toByte(v))} :
            /\ uart' = st.uart
            /\ uret' = [op |-> "Reset", fault |-> f, echo |-> toByte(v),
                        err |-> st.err, baud |-> uart.baud, open |-> uart.open]
    /\ UNCHANGED <<devs, sensorVars, searchVars, concVars>>

\* a bit or byte primitive after reset: it runs at the baud rate of the port
DoPrimitive ==
    /\ uret.op \in {"reset", "Reset"}
    /\ uret' = [op |-> "primitive", fault |-> uret.fault, echo |-> uret.echo,
                err |-> uret.err, baud |-> uart.baud, open |-> uart.open]
    /\ UNCHANGED <<devs, uart, sensorVars, searchVars, concVars>>

ResetReturn ==
    /\ uret.op = "primitive"
    /\ uret' = NoUret
    /\ UNCHANGED <<devs, uart, sensorVars, searchVars, concVars>>

NextReset == DoReset \/ DoPortReset \/ DoPrimitive \/ ResetReturn

SpecReset == InitReset /\ [][NextReset]_vars

(***************************************************************************)
(* Claims about concurrent callers (SpecConc).                             *)
(***************************************************************************)
\* the caller has issued the first primitive of its operation and not yet
\* the last
MidOperation(c) ==
    pc[c] = "run" /\ 1 < job[c].at /\ job[c].at <= Len(job[c].script)

\* C1: a caller between the first and the last primitive of a public
\* operation holds the bus mutex, and no other caller is between the first
\* and the last primitive of its operation: the primitives of two
\* operations do not interleave on the transport.
C1_OperationsHoldTheLock ==
    \A c \in DOMAIN pc :
        MidOperation(c) =>
            /\ mx = c
            /\ \A o \in DOMAIN pc \ {c} : ~MidOperation(o)

(***************************************************************************)
(* Claims about the search (SpecSearch).                                   *)
(***************************************************************************)
ReturnedRoms == {sret.roms[i] : i \in 1..Len(sret.roms)}

QuietSearch == spc = "done" /\ stat.stable /\ stat.failAt = 0

\* C2: on a line with N >= 1 devices of distinct IDs that answers as a wired
\* AND, with no fault and no device leaving, GetConnectedROMs returns no
\* error and exactly N ROMs: the IDs of the devices, each once.
C2_SearchReturnsExactlyTheDevices ==
    (QuietSearch /\ ~withAlarm /\ DOMAIN devs # {}) =>
        /\ ~sret.err
        /\ Len(sret.roms) = Cardinality(DOMAIN devs)
        /\ ReturnedRoms = DOMAIN devs

C2_Witness ==
    /\ QuietSearch /\ ~withAlarm /\ ~sret.err
    /\ Cardinality(DOMAIN devs) = 2 /\ stat.rounds = 2

\* C3: every ROM in a list returned by GetConnectedROMs or GetROMsWithAlarm
\* has crc8(bytes 0..6) = byte 7.
C3_ReturnedRomsAreCrcValid ==
    (spc = "done" /\ ~sret.err) => \A r \in ReturnedRoms : IsValid(r)

\* C4: in GetROMsWithAlarm a turn that ends on a bit and its complement both
\* reading 1 appends no ROM, so the list holds one ROM per turn that read 64
\* bits; with devices present and none alarmed the list is empty.
C4_AlarmBreakAppendsNoRom ==
    (spc = "done" /\ withAlarm /\ ~sret.err) =>
        /\ Len(sret.roms) = stat.rounds - stat.breaks
        /\ (\A r \in DOMAIN devs : ~devs[r].alarm) => sret.roms = <<>>

(***************************************************************************)
(* Claims about the public operations (Spec).  They read what the          *)
(* operation returned (ret), the primitives it issued (wire) and the line  *)
(* (devs).                                                                 *)
(***************************************************************************)
\* the primitives of the operation that failed
FailedAt == {i \in 1..Len(wire) : ~wire[i][3]}

\* wire[i+1 .. i+k] are k bytes read without a failure
BytesReadAfter(i, k) ==
    /\ i + k <= Len(wire)
    /\ \A j \in 1..k : wire[i + j][1] = "rbyte" /\ wire[i + j][3]

BytesAfter(i, k) == [j \in 1..k |-> wire[i + j][2]]

\* the Read-ROM commands of the operation that were answered with 8 bytes
RomReads == {i \in 1..Len(wire) : wire[i] = <<"wbyte", 51, TRUE>>
                                   /\ BytesReadAfter(i, 8)}

\* the Read-Scratchpad commands of the operation answered with 9 bytes
ScratchpadReads == {i \in 1..Len(wire) : wire[i] = <<"wbyte", 190, TRUE>>
                                          /\ BytesReadAfter(i, 9)}

BadCrcScratchpadRead ==
    \E i \in ScratchpadReads :
        crc8(SubSeq(BytesAfter(i, 9), 1, 8)) # BytesAfter(i, 9)[9]

WritesScratchpad == \E i \in 1..Len(wire) : wire[i][1] = "wbyte" /\ wire[i][2] = 78

\* the Read-ROM attempt of a construction without a ROM failed: one of its
\* 10 primitives failed, or the 8 bytes read are not CRC-consistent
ReadRomFailed ==
    \/ \E i \in FailedAt : i <= 10
    \/ \E i \in RomReads : ~IsValid(BytesAfter(i, 8))

\* the primitives after the Read-ROM attempt were issued and succeeded
RestSucceeded ==
    /\ \A i \in FailedAt : i <= 10 /\ \A j \in FailedAt : j = i
    /\ \E i \in 1..Len(wire) : wire[i] = <<"wbyte", 180, TRUE>>
    /\ wire[Len(wire)][1] = "rbit" /\ wire[Len(wire)][3]

\* C5: NewTemperatureSensor(bus, nil, required=false), when the Read-ROM
\* attempt fails and the primitives after it succeed, completes without a
\* panic and returns a single-mode sensor whose ROM is unset.
C5_ConstructionWithoutRomCompletes ==
    (ret.op = "New" /\ ret.rom = NoROM /\ ~ret.required
        /\ ReadRomFailed /\ RestSucceeded) =>
        /\ ret.out = "ok"
        /\ sensor # NoSensor /\ sensor.singleMode /\ sensor.rom = NoROM

\* C6: NewTemperatureSensor(bus, rom, required=false) with a rom whose
\* device is absent while other devices answer the reset, and no primitive
\* failing, returns a sensor and no error, whatever the family of rom.
C6_AbsentDeviceNotRequiredConstructs ==
    (ret.op = "New" /\ ret.rom # NoROM /\ ~ret.required
        /\ ret.rom \notin DOMAIN devs /\ DOMAIN devs # {} /\ FailedAt = {}) =>
        ret.out = "ok" /\ sensor # NoSensor

\* C7: IsConnected(rom) answers true exactly when a device with the ID rom
\* is on the line, and NewTemperatureSensor(bus, rom, required=true) fails
\* when no device has the ID rom.
C7_IsConnectedIffDevicePresent ==
    /\ (ret.op = "IsConnected" /\ FailedAt = {} /\ ret.out = "ok") =>
           (ret.online <=> ret.rom \in DOMAIN devs)
    /\ (ret.op = "New" /\ ret.rom # NoROM /\ ret.required
           /\ ret.rom \notin DOMAIN devs) => ret.out = "err"

\* C8: a public operation in which a transport primitive failed returns an
\* error.
C8_FailedPrimitiveIsReturned ==
    (ret.op # "none" /\ FailedAt # {}) => ret.out = "err"

\* C9: after a scratchpad read whose 9th byte is not the crc8 of the first
\* 8, GetTemperature, GetAlarms, SetAlarms and SetResolution return an
\* error, GetTemperature no temperature, GetAlarms no alarm values, and no
\* Write-Scratchpad is issued.
C9_ScratchpadCrcMismatchFails ==
    (ret.op \in {"GetTemperature", "GetAlarms", "SetAlarms", "SetResolution"}
        /\ BadCrcScratchpadRead) =>
        /\ ret.out = "err"
        /\ ret.op = "GetTemperature" => ret.val = <<0>>
        /\ ret.op = "GetAlarms" => ret.val = <<0, 0>>
        /\ ~WritesScratchpad

C9_Witness ==
    /\ ret.op = "SetResolution" /\ BadCrcScratchpadRead /\ ret.out = "err"
    /\ FailedAt = {}

\* C10: GetSingleROM returns a ROM only after a reset that succeeded, a
\* 0x33 command that echoed, and 8 bytes read whose crc8 over bytes 0..6 is
\* byte 7; otherwise, and on a CRC mismatch, it returns an error and no ROM.
C10_SingleRomOnlyIfReadAndValid ==
    ret.op = "GetSingleROM" =>
        /\ ret.out \in {"ok", "err"}
        /\ ret.out = "ok" =>
              /\ Len(wire) = 10 /\ FailedAt = {}
              /\ wire[1][1] = "reset" /\ RomReads = {2}
              /\ ret.val = BytesAfter(2, 8) /\ IsValid(ret.val)
        /\ ret.out = "err" => ret.val = NoROM
        /\ (\E i \in RomReads : ~IsValid(BytesAfter(i, 8))) => ret.out = "err"

C10_Witness ==
    /\ ret.op = "GetSingleROM" /\ FailedAt = {} /\ RomReads = {2}
    /\ ~IsValid(BytesAfter(2, 8)) /\ ret.out = "err"
    /\ Cardinality(DOMAIN devs) = 2

(***************************************************************************)
(* Claims about the primitives on the serial port (SpecUart).  uret holds  *)
(* the arguments of the call, what uart.Write and uart.Read returned and   *)
(* whether the call returned an error; uart holds the writes it made.      *)
(***************************************************************************)
\* uart.Write and uart.Read returned no error and the whole echo
EchoRead(size) == uret.wok /\ ~uret.r.err /\ uret.r.n = size

\* C11: WriteBit(v) succeeds exactly when the echo is read and equals the
\* byte sent (0x00 for even v, 0xFF for odd v); WriteByte(d) succeeds
\* exactly when the 8 bytes of the echo are read and each equals the byte
\* sent for bit n of d, least-significant first; a call that fails has
\* written to the port once, not again.
C11_WriteSucceedsIffEchoMatches ==
    /\ uret.op = "WriteBit" =>
         /\ ~uret.err <=>
              /\ EchoRead(1)
              /\ uret.r.bytes[1] = (IF uret.data % 2 = 0 THEN 0 ELSE 255)
         /\ Len(uart.tx) = 1
         /\ uart.tx[1] = <<IF uret.data % 2 = 0 THEN 0 ELSE 255>>
    /\ uret.op = "WriteByte" =>
         /\ ~uret.err <=>
              /\ EchoRead(8)
              /\ \A n \in 0..7 :
                   uret.r.bytes[n + 1] = (IF Bit(uret.data, n) = 1 THEN 255 ELSE 0)
         /\ Len(uart.tx) = 1
         /\ uart.tx[1] = [i \in 1..8 |-> IF Bit(uret.data, i - 1) = 1 THEN 255 ELSE 0]

C11_Witness ==
    /\ uret.op = "WriteByte" /\ EchoRead(8) /\ uret.err
    /\ uret.r.bytes[8] # uart.tx[1][8]
    /\ \A i \in 1..7 : uret.r.bytes[i] = uart.tx[1][i]

(***************************************************************************)
(* Claims about calcTemperature (SpecCalc).                                *)
(***************************************************************************)
\* the signed 16-bit little-endian count in scratchpad bytes 0 and 1
RawCount ==
    IF uret.sp[1] + 256 * uret.sp[2] >= 32768
    THEN uret.sp[1] + 256 * uret.sp[2] - 65536
    ELSE uret.sp[1] + 256 * uret.sp[2]

CalcOf(f, lo, hi) ==
    uret.op = "calcTemperature" /\ sensor.familyCode = f
        /\ uret.sp[1] = lo /\ uret.sp[2] = hi

\* C12: calcTemperature returns raw * 625 (raw * 10000 / 16) for families
\* 0x22/0x28 and raw * 5000 for family 0x10 at 9-bit resolution, for every
\* signed 16-bit raw count; D0 07 gives 1250000, F8 FF gives -5000 and
\* 90 FC gives -550000 on 0x28, AA 00 gives 850000 and FF FF gives -5000
\* on 0x10.
C12_CalcTemperatureScalesTheRawCount ==
    /\ (uret.op = "calcTemperature" /\ sensor.familyCode \in {34, 40}) =>
          uret.val = RawCount * 625
    /\ (uret.op = "calcTemperature" /\ sensor.familyCode = 16
           /\ sensor.resolution = 0) => uret.val = RawCount * 5000
    /\ CalcOf(40, 208, 7) => uret.val = 1250000
    /\ CalcOf(40, 248, 255) => uret.val = -5000
    /\ CalcOf(40, 144, 252) => uret.val = -550000
    /\ CalcOf(16, 170, 0) => uret.val = 850000
    /\ CalcOf(16, 255, 255) => uret.val = -5000

C12_Witness == CalcOf(40, 144, 252) /\ uret.val = -550000

(***************************************************************************)
(* Claims about the configuration of the sensor (Spec).                    *)
(***************************************************************************)
\* a programmable sensor has just been constructed or has just had its
\* resolution set, with success
ResolutionJustSet ==
    /\ ret.op \in {"New", "SetResolution"} /\ ret.out = "ok"
    /\ sensor # NoSensor /\ sensor.familyCode \in {34, 40}

\* C13 as stated: the conversion wait time set at construction and after a
\* successful SetResolution is 750 ms at 9-bit resolution and 93.75 ms at
\* 12-bit resolution.
C13_ConversionTimeAsStated ==
    ResolutionJustSet =>
        /\ sensor.resolution = 0 => sensor.tConv = 750
        /\ sensor.resolution = 3 => 100 * sensor.tConv = 9375

\* C13 amended: the conversion wait time set at construction and after a
\* successful SetResolution is the integer quotient 750 / (8 >> resolution)
\* in milliseconds: 93 ms at 9-bit resolution (resolution 0), 187 ms at
\* 10-bit, 375 ms at 11-bit and 750 ms at 12-bit (resolution 3).
C13_ConversionTimeFollowsResolution ==
    ResolutionJustSet =>
        sensor.tConv = <<93, 187, 375, 750>>[sensor.resolution + 1]

C13_Witness ==
    /\ ResolutionJustSet /\ ret.op = "SetResolution"
    /\ sensor.resolution = 0 /\ sensor.tConv = 93 /\ ret.was.tConv = 750

\* the Write-Scratchpad commands of the operation
ScratchpadWrites == {j \in 1..Len(wire) : wire[j][1] = "wbyte" /\ wire[j][2] = 78}

\* the primitives after wire[j] are writes of the bytes of data, in order,
\* and nothing else: all of them when no primitive failed
WritesAfter(j, data) ==
    /\ Len(wire) - j <= Len(data)
    /\ \A k \in 1..(Len(wire) - j) :
         wire[j + k][1] = "wbyte" /\ wire[j + k][2] = data[k]
    /\ FailedAt = {} => Len(wire) - j = Len(data)

\* C14: SetResolution(r) on a family 0x22/0x28 sensor sends Write-Scratchpad
\* (0x4E) with exactly three bytes: the alarm-high and alarm-low bytes of the
\* scratchpad it has just read, unchanged, and the configuration byte
\* ((r & 3) << 5) | 0x1F.
C14_SetResolutionWritesThreeBytes ==
    (ret.op = "SetResolution" /\ ret.was.familyCode \in {34, 40}) =>
        /\ ret.out = "ok" => ScratchpadWrites # {}
        /\ \A j \in ScratchpadWrites :
             \E i \in ScratchpadReads :
                /\ i < j
                /\ WritesAfter(j, <<BytesAfter(i, 9)[3], BytesAfter(i, 9)[4],
                                    (ret.args[1] % 4) * 32 + 31>>)

C14_Witness ==
    /\ ret.op = "SetResolution" /\ ret.was.familyCode = 40 /\ ret.out = "ok"
    /\ ret.args = <<2>> /\ FailedAt = {}
    /\ wire[Len(wire) - 2] = <<"wbyte", 30, TRUE>>
    /\ wire[Len(wire)] = <<"wbyte", 95, TRUE>>

\* what SetAlarms(high, low) sends after the scratchpad read at wire[i]
AlarmBytes(i) ==
    IF ret.was.familyCode \in {34, 40}
    THEN <<ret.args[1] % 256, ret.args[2] % 256, BytesAfter(i, 9)[5]>>
    ELSE <<ret.args[1] % 256, ret.args[2] % 256>>

AlarmsSent ==
    ret.op = "SetAlarms" =>
        /\ ret.out = "ok" => ScratchpadWrites # {}
        /\ \A j \in ScratchpadWrites :
             \E i \in ScratchpadReads : i < j /\ WritesAfter(j, AlarmBytes(i))

\* the resolution bits (bits 5 and 6 of the configuration byte) of a device
ResolutionBits(d) == (d.sp[5] \div 32) % 4

\* a Skip-ROM sensor is used as documented: one device is on the line
\* (Skip-ROM selects every device, and the scratchpad read is then the
\* wired-AND of all of them)
OneDeviceIfSkipROM == sensor.singleMode => Cardinality(DOMAIN devs) = 1

AlarmsKeepResolution ==
    (ret.op = "none" /\ ret'.op = "SetAlarms" /\ OneDeviceIfSkipROM) =>
        \A r \in DOMAIN devs : ResolutionBits(devs'[r]) = ResolutionBits(devs[r])

UnsupportedResolution ==
    IF ret.was.familyCode \in {34, 40} THEN ret.args[1] > 3
    ELSE ret.was.familyCode = 16 /\ ret.args[1] \notin {0, 1}

\* C16: SetResolution with a resolution the family does not support (above
\* 3 for families 0x22/0x28, other than 0 or 1 for family 0x10) returns an
\* error, sends no Write-Scratchpad and leaves the resolution, the
\* conversion time and the precision label of the sensor as they were.
C16_UnsupportedResolutionIsRejected ==
    (ret.op = "SetResolution" /\ UnsupportedResolution) =>
        /\ ret.out = "err"
        /\ ~WritesScratchpad
        /\ sensor.resolution = ret.was.resolution
        /\ sensor.tConv = ret.was.tConv
        /\ sensor.precision = ret.was.precision

(***************************************************************************)
(* Claims about the addressing of the sensor (Spec).                       *)
(***************************************************************************)
SensorOps == {"GetTemperature", "GetAlarms", "SetAlarms", "SetResolution",
              "SaveEEPROM", "LoadEEPROM"}

\* the primitives after the reset wire[i], as far as the operation went,
\* are the writes of the bytes of data
SelectsWith(i, data) ==
    \A k \in 1..Len(data) :
        i + k <= Len(wire) =>
            wire[i + k][1] = "wbyte" /\ wire[i + k][2] = data[k]

SelectsAsBuilt ==
    /\ (ret.op = "New" /\ ret.out = "ok") =>
          /\ sensor.singleMode <=> ret.rom = NoROM
          /\ ret.rom # NoROM => sensor.rom = ret.rom
    /\ ret.op \in SensorOps =>
          \A i \in 1..Len(wire) :
              (wire[i][1] = "reset" /\ wire[i][3]) =>
                  IF ret.was.singleMode THEN SelectsWith(i, <<204>>)
                  ELSE SelectsWith(i, <<85>> \o ret.was.rom)

AddressingKept ==
    sensor # NoSensor =>
        /\ sensor' # NoSensor
        /\ sensor'.singleMode = sensor.singleMode
        /\ sensor'.rom = sensor.rom
        /\ sensor'.familyCode = sensor.familyCode
        /\ sensor'.parasiticMode = sensor.parasiticMode

\* C17: after construction no public operation, succeeding or failing,
\* changes the addressing mode, the ROM, the family code or the parasitic
\* flag of a sensor; a sensor built without a ROM selects with Skip-ROM
\* (0xCC) after every reset, a sensor built with a ROM with Match-ROM (0x55)
\* and the 8 bytes of that ROM in order.
C17_AddressingIsFixedAtConstruction ==
    []SelectsAsBuilt /\ [][AddressingKept]_vars

C17_Witness ==
    /\ ret.op = "GetTemperature" /\ ~ret.was.singleMode /\ ret.out = "ok"
    /\ nops = 2 /\ Cardinality(DOMAIN devs) = 2
    /\ \E i \in 3..Len(wire) :
         wire[i][1] = "reset" /\ SelectsWith(i, <<85>> \o ret.was.rom)
                              /\ i + 9 <= Len(wire)

LoadSkipped ==
    (ret.op = "LoadEEPROM" /\ ret.was.parasiticMode) =>
        wire = <<>> /\ ret.out = "ok" /\ sensor = ret.was

LoadLeavesTheLine ==
    (ret.op = "none" /\ ret'.op = "LoadEEPROM" /\ sensor.parasiticMode) =>
        devs' = devs /\ sensor' = sensor

\* C18: LoadEEPROM on a sensor in parasitic-power mode issues no reset, no
\* Recall command and no other primitive, and returns success; the devices
\* and the sensor are as before.
C18_LoadEEPROMSkippedInParasiticMode ==
    []LoadSkipped /\ [][LoadLeavesTheLine]_vars

C18_Witness ==
    /\ ret.op = "LoadEEPROM" /\ ret.was.parasiticMode /\ ret.out = "ok"
    /\ wire = <<>> /\ DOMAIN devs # {}

(***************************************************************************)
(* Claims about the text of a ROM (SpecRom).                               *)
(***************************************************************************)
HexChars == {"0", "1", "2", "3", "4", "5", "6", "7", "8", "9",
             "a", "b", "c", "d", "e", "f", "A", "B", "C", "D", "E", "F"}

AllHex(code) == \A i \in 1..Len(code) : code[i] \in HexChars

\* C19: NewROMFromString returns an error and no ROM for every text whose
\* length is not 16 and for every text of 16 characters with a character
\* outside 0-9, a-f, A-F, '+' and '-' included.
C19_MalformedTextIsRejected ==
    (uret.op = "NewROMFromString"
        /\ (Len(uret.code) # 16 \/ ~AllHex(uret.code))) =>
        uret.err /\ uret.rom = NoROM

\* C20: NewROMFromString returns an error for every text of 16 hexadecimal
\* characters whose last byte is not the crc8 of its first seven bytes: a
\* ROM it returns satisfies crc8(bytes 0..6) = byte 7.
C20_ParsedRomIsCrcValid ==
    (uret.op = "NewROMFromString" /\ Len(uret.code) = 16
        /\ AllHex(uret.code)) =>
        (uret.err \/ crc8(SubSeq(uret.rom, 1, 7)) = uret.rom[8])

(***************************************************************************)
(* Claims about the conversions of a ROM value (SpecRomValue).             *)
(***************************************************************************)
\* the byte that eight bits, least significant first, stand for
ByteOfBits(bits, i) ==
    bits[8 * i + 1] + 2 * bits[8 * i + 2] + 4 * bits[8 * i + 3]
        + 8 * bits[8 * i + 4] + 16 * bits[8 * i + 5] + 32 * bits[8 * i + 6]
        + 64 * bits[8 * i + 7] + 128 * bits[8 * i + 8]

\* C21: toBits yields 64 entries, each 0 or 1, bytes 0 to 7 in order and
\* the least significant bit of each byte first, and newRomFromBits of them
\* is the ROM again.
C21_ToBitsRoundTrip ==
    uret.op = "toBits" =>
        /\ Len(uret.bits) = 64
        /\ \A k \in 1..64 : uret.bits[k] \in {0, 1}
        /\ \A i \in 0..7 : ByteOfBits(uret.bits, i) = uret.rom[i + 1]
        /\ uret.back = uret.rom

C21_Witness ==
    /\ uret.op = "toBits" /\ uret.rom = <<40, 37, 234, 82, 5, 16, 243, 206>>
    /\ SubSeq(uret.bits, 1, 8) = <<0, 0, 0, 1, 0, 1, 0, 0>>
    /\ uret.back = uret.rom

\* C22: the text of a ROM is 16 upper-case hex characters, byte 0 first,
\* and NewROMFromString of it succeeds with the same ROM.
C22_StringRoundTrip ==
    uret.op = "String" =>
        /\ Len(uret.text) = 16
        /\ \A i \in 1..8 :
             /\ \E h \in 1..16 : /\ uret.text[2 * i - 1] = HexUpper[h]
                                  /\ h - 1 = uret.rom[i] \div 16
             /\ \E l \in 1..16 : /\ uret.text[2 * i] = HexUpper[l]
                                  /\ l - 1 = uret.rom[i] % 16
        /\ ~uret.err
        /\ uret.back = uret.rom

C22_Witness ==
    /\ uret.op = "String" /\ uret.rom = <<40, 37, 234, 82, 5, 16, 243, 206>>
    /\ uret.text = <<"2", "8", "2", "5", "E", "A", "5", "2",
                     "0", "5", "1", "0", "F", "3", "C", "E">>
    /\ ~uret.err /\ uret.back = uret.rom

(***************************************************************************)
(* Claims about the reset pulse (SpecReset).                               *)
(***************************************************************************)
\* C23: after reset returns, with success or with any error, the port is
\* open and at the normal baud rate 115200, and so it is for every later
\* primitive.
C23_ResetRestoresTheBaudRate ==
    /\ uret.op \in {"reset", "Reset"} => (uart.open /\ uart.baud = NormalBaud)
    /\ uret.op = "primitive" => (uret.open /\ uret.baud = NormalBaud)

\* the calls of reset all succeeded
NoResetFault == uret.fault = {}

\* C29: with the port calls succeeding, reset succeeds exactly when the
\* echoed byte e has a zero low nibble and a high nibble other than 0xF; a
\* non-zero low nibble is a reset-pulse error and 0xF0 is "no 1-wire device
\* present".
C29_ResetDecodesTheEcho ==
    (uret.op = "reset" /\ NoResetFault) =>
        /\ uret.err = "" <=> (uret.echo % 16 = 0 /\ uret.echo \div 16 # 15)
        /\ uret.echo % 16 # 0 => uret.err = "pulse"
        /\ uret.echo = 240 => uret.err = "absent"

C29_Witness ==
    /\ uret.op = "reset" /\ NoResetFault
    /\ uret.echo = 241 /\ uret.err = "pulse"

(***************************************************************************)
(* More claims about the search (SpecSearch).                              *)
(***************************************************************************)
\* C24: in GetConnectedROMs, once a bit and its complement have both read 1
\* the operation has returned an error and no list: the ROMs completed in
\* earlier turns are not returned and no further turn is started.
C24_TwoOnesEndTheSearch ==
    (~withAlarm /\ stat.ones > 0) =>
        /\ spc = "done"
        /\ sret.err
        /\ sret.roms = <<>>

\* C25: on a line with N >= 1 devices of distinct IDs that answers
\* consistently, GetConnectedROMs ends after exactly N turns (reset and
\* command) and reads at most N x 64 pairs of bits, the replayed ones
\* included.
C25_SearchTakesOneTurnPerDevice ==
    (QuietSearch /\ ~withAlarm /\ DOMAIN devs # {}) =>
        /\ stat.rounds = Cardinality(DOMAIN devs)
        /\ stat.pairs <= 64 * Cardinality(DOMAIN devs)

C25_Witness ==
    /\ QuietSearch /\ ~withAlarm /\ ~sret.err
    /\ Cardinality(DOMAIN devs) = 3 /\ stat.rounds = 3 /\ stat.pairs = 192

\* the first of the 64 bit positions where two different ROMs differ
Div(r, q) == CHOOSE d \in 1..64 :
                /\ toBits(r)[d] # toBits(q)[d]
                /\ \A e \in 1..(d - 1) : toBits(r)[e] = toBits(q)[e]

\* r is before q in the lexicographic order of the 64 bits, LSB first
BitsLess(r, q) == r # q /\ toBits(r)[Div(r, q)] < toBits(q)[Div(r, q)]

\* a search of a quiet line with devices has returned its list
ListReturned == QuietSearch /\ ~withAlarm /\ ~sret.err /\ DOMAIN devs # {}

\* the statement as written: the list is ascending
C26_ListIsAscending ==
    ListReturned =>
        \A i, j \in 1..Len(sret.roms) :
            i < j => BitsLess(sret.roms[i], sret.roms[j])

\* the depth at which the branch of the k-th ROM was saved: the longest
\* prefix it shares with a ROM returned before it
BranchDepth(k) ==
    CHOOSE d \in 1..64 :
        /\ \E j \in 1..(k - 1) : Div(sret.roms[j], sret.roms[k]) = d
        /\ \A j \in 1..(k - 1) : Div(sret.roms[j], sret.roms[k]) <= d

\* the turn that saved the branch of the k-th ROM: the first ROM of the list
\* that shares that prefix
BranchTurn(k) ==
    CHOOSE j \in 1..(k - 1) :
        /\ Div(sret.roms[j], sret.roms[k]) = BranchDepth(k)
        /\ \A i \in 1..(j - 1) : Div(sret.roms[i], sret.roms[k]) # BranchDepth(k)

\* the branch of the k-th ROM was saved before the branch of the l-th
SavedBefore(k, l) ==
    \/ BranchTurn(k) < BranchTurn(l)
    \/ BranchTurn(k) = BranchTurn(l) /\ BranchDepth(k) < BranchDepth(l)

\* C26: at a conflict the 0-branch is followed first, and the saved
\* 1-branches are followed in the order they were saved: the first ROM of
\* the list is the least, every later ROM is the least of the devices on its
\* branch and has bit 1 where the turn that saved the branch had 0, and the
\* later ROMs are in the order of saving.
C26_BranchesInOrderOfSaving ==
    ListReturned =>
        /\ \A r \in DOMAIN devs \ {sret.roms[1]} : BitsLess(sret.roms[1], r)
        /\ \A k \in 2..Len(sret.roms) :
             /\ BitsLess(sret.roms[BranchTurn(k)], sret.roms[k])
             /\ \A r \in DOMAIN devs :
                  (r # sret.roms[k] /\ Div(r, sret.roms[k]) > BranchDepth(k))
                      => BitsLess(sret.roms[k], r)
        /\ \A k, l \in 2..Len(sret.roms) : k < l => SavedBefore(k, l)

C26_Witness ==
    /\ ListReturned
    /\ sret.roms = <<RomB20, Rom822, RomTwin>>

(***************************************************************************)
(* Claims about the order of the primitives of an operation (Spec).        *)
(***************************************************************************)
\* the bytes that select the device of the sensor the operation ran on
Selection == IF ret.was.singleMode THEN <<204>> ELSE <<85>> \o ret.was.rom

\* wire[i] is a reset, followed by the selection and the command byte c
Commanded(i, c) ==
    /\ i + Len(Selection) + 1 <= Len(wire)
    /\ wire[i][1] = "reset"
    /\ SelectsWith(i, Selection)
    /\ wire[i + Len(Selection) + 1] = <<"wbyte", c, TRUE>>

\* the wire is: reset, selection, 0x44, p read-bit polls, reset, selection,
\* 0xBE, nine byte reads
TemperatureSequence(p) ==
    LET c == Len(Selection) + 2
    IN  /\ Len(wire) = 2 * c + p + 9
        /\ Commanded(1, 68)
        /\ \A k \in (c + 1)..(c + p) : wire[k][1] = "rbit"
        /\ Commanded(c + p + 1, 190)
        /\ \A k \in (2 * c + p + 1)..(2 * c + p + 9) : wire[k][1] = "rbyte"

\* C27: a successful GetTemperature holds the lock and issues, in this
\* order: reset, selection, Convert-T (0x44), the wait, reset, selection,
\* Read-Scratchpad (0xBE), nine byte reads; the wait is read-bit polls only
\* outside parasitic mode and nothing at all in parasitic mode.
C27_GetTemperatureSequence ==
    (ret.op = "GetTemperature" /\ ret.out = "ok") =>
        /\ OpLocks("GetTemperature")
        /\ \E p \in 0..Len(wire) : TemperatureSequence(p)
        /\ ret.was.parasiticMode => TemperatureSequence(0)

C27_Witness ==
    /\ ret.op = "GetTemperature" /\ ret.out = "ok"
    /\ ~ret.was.parasiticMode /\ ~ret.was.singleMode
    /\ TemperatureSequence(2)

C27_WitnessParasitic ==
    /\ ret.op = "GetTemperature" /\ ret.out = "ok"
    /\ ret.was.parasiticMode /\ TemperatureSequence(0)

\* the commands the sensor waits after: Convert-T, Copy-Scratchpad, Recall
WaitCommands == {68, 72, 184}

\* the read bits that follow wire[i] without another primitive between
PollsAfter(i) ==
    {k \in (i + 1)..Len(wire) : \A j \in (i + 1)..k : wire[j][1] = "rbit"}

\* the wait after the command at wire[i]: at least one read bit; a further
\* one only after a 0 read without error; an error exactly when the last
\* read bit failed, and then the operation ends with it; otherwise the wait
\* is over without error and the operation goes on (GetTemperature, with
\* the reset of the scratchpad read) or returns success
WaitedAfter(i) ==
    LET P == PollsAfter(i)
        last == i + Cardinality(P)
    IN  /\ P # {}
        /\ \A k \in P : (k + 1) \in P => wire[k] = <<"rbit", 0, TRUE>>
        /\ IF ~wire[last][3]
           THEN ret.out = "err" /\ last = Len(wire)
           ELSE IF ret.op = "GetTemperature"
           THEN last < Len(wire) /\ wire[last + 1][1] = "reset"
           ELSE ret.out = "ok" /\ last = Len(wire)

\* C28: outside parasitic mode the wait after Convert-T, Copy-Scratchpad or
\* Recall reads bits one at a time, at least one; it stops at the first bit
\* that reads 1 and at the first check that finds the time over, with
\* success in both cases; only a failing read bit makes it an error.
C28_WaitPollsUntilOneOrTimeout ==
    (ret.op \in {"GetTemperature", "SaveEEPROM", "LoadEEPROM"}
        /\ ~ret.was.parasiticMode) =>
        \A i \in 1..Len(wire), c \in WaitCommands :
            Commanded(i, c) => WaitedAfter(i + Len(Selection) + 1)

\* the wait of a SaveEEPROM ended by the time check after a 0
C28_Witness ==
    /\ ret.op = "SaveEEPROM" /\ ~ret.was.parasiticMode /\ ret.out = "ok"
    /\ Commanded(1, 72)
    /\ wire[Len(wire)] = <<"rbit", 0, TRUE>>

\* the wait of a LoadEEPROM ended by a 1 after a 0
C28_WitnessOne ==
    /\ ret.op = "LoadEEPROM" /\ ~ret.was.parasiticMode /\ ret.out = "ok"
    /\ Commanded(1, 184)
    /\ wire[Len(wire) - 1] = <<"rbit", 0, TRUE>>
    /\ wire[Len(wire)] = <<"rbit", 1, TRUE>>

(***************************************************************************)
(* Claims about the fields of the sensor (Spec).                           *)
(***************************************************************************)
\* C30: for a sensor of family 0x22 or 0x28, after construction and after
\* every SetResolution, failed ones included, the conversion time is
\* 750 / (8 >> resolution) ms and the precision label is 9 + resolution
\* bits, for the resolution the sensor stores.
C30_ResolutionFieldsAgree ==
    (sensor # NoSensor /\ sensor.familyCode \in {34, 40}) =>
        /\ sensor.resolution \in 0..3
        /\ sensor.tConv = <<93, 187, 375, 750>>[sensor.resolution + 1]
        /\ sensor.precision =
              <<"9 bits", "10 bits", "11 bits", "12 bits">>[sensor.resolution + 1]

(***************************************************************************)
(* Claims about the release of the lock (SpecConcFair).                    *)
(***************************************************************************)
\* a caller waits for the mutex only when it does not hold it
NoSecondLock == \A c \in Callers : pc[c] = "lock" => mx # c

\* the return of an operation that took the mutex leaves the mutex free
ReturnFreesTheLock ==
    \A c \in Callers :
        (pc[c] = "run" /\ pc'[c] = "idle" /\ OpLocks(job[c].op)) => mx' = 0

\* a caller inside an operation is back outside later
EveryCallerCompletes == \A c \in Callers : (pc[c] # "idle") ~> (pc[c] = "idle")

\* C31: an operation that takes the bus lock releases it on every return,
\* with success or with an error, and does not take it again while it holds
\* it; with transport calls that terminate every concurrent caller
\* completes its operation.
C31_LockIsReleasedAndCallersComplete ==
    /\ []NoSecondLock
    /\ [][ReturnFreesTheLock]_vars
    /\ EveryCallerCompletes

\* a caller waits for the mutex another caller holds in mid operation
C31_Witness ==
    /\ pc[1] = "lock" /\ mx = 2 /\ MidOperation(2)
    /\ OpLocks(job[1].op)


(***************************************************************************)
(* Claims about GetTemperature on the bytes read (SpecScratch).            *)
(***************************************************************************)
\* the read passed the crc check of readScratchpad
CrcValid == crc8(SubSeq(uret.buf, 1, 8)) = uret.buf[9]

AllZeroRead == uret.buf = <<0, 0, 0, 0, 0, 0, 0, 0, 0>>

\* C32: GetTemperature on a scratchpad that passed the crc check ends with
\* a value or an error, never with a run-time panic: also on a family 0x10
\* sensor in extended resolution whose COUNT PER C byte is 0, as in the
\* all-zero read.
C32_GetTemperatureNeverPanics ==
    (uret.op = "GetTemperature" /\ CrcValid) => uret.out \in {"ok", "err"}

\* the all-zero read passes the crc check and GetTemperature divides by its
\* byte 7
C32_AllZeroReadPanics ==
    /\ uret.op = "GetTemperature" /\ AllZeroRead /\ CrcValid
    /\ sensor.familyCode = 16 /\ sensor.resolution = 1
    /\ uret.out = "panic"


(***************************************************************************)
(* Claims about the locals of searchROM between two turns (SpecSearch).    *)
(***************************************************************************)
\* the bits p are the first bits of the ROM r
PrefixOf(p, r) == Len(p) <= 64 /\ \A k \in 1..Len(p) : p[k] = toBits(r)[k]

OnTheLine(p) == \E r \in DOMAIN devs : PrefixOf(p, r)

\* between two turns, or after the last, of GetConnectedROMs while the
\* devices answer: no fault of the transport, no device left the line
RoundBoundary ==
    /\ spc \in {"loop", "done"} /\ ~withAlarm
    /\ stat.stable /\ stat.failAt = 0 /\ DOMAIN devs # {}

\* C33: between the turns of GetConnectedROMs on a line whose devices
\* answer consistently, every pending prefix has 1 to 64 bits, ends with
\* bit 1 and begins the ROM of a device on the line; the current path
\* begins the ROM of a device on the line; and no pending prefix begins a
\* ROM already completed.
C33_PendingPrefixesAreOpenBranches ==
    RoundBoundary =>
        /\ \A k \in 1..Len(partials) :
              /\ Len(partials[k]) \in 1..64
              /\ partials[k][Len(partials[k])] = 1
              /\ OnTheLine(partials[k])
              /\ \A j \in 1..Len(complete) : ~PrefixOf(partials[k], complete[j])
        /\ OnTheLine(current)

C33_Witness ==
    /\ RoundBoundary /\ spc = "loop"
    /\ Len(complete) >= 1 /\ Len(partials) >= 1 /\ Len(current) >= 1

====
